---- MODULE Spec2Model ----
(***************************************************************************)
(* A model of yoink, a forensic artefact collector.                        *)
(*                                                                         *)
(*   Spec        the archiver: Collecter::compress_collection and the two  *)
(*               per-artefact writers it calls (compress_file for files    *)
(*               the OS can open, compress_file_raw for the raw NTFS       *)
(*               path), src/collection/collecter.rs.                       *)
(*   SpecSector  the sector-aligned block reader SectorReader (new, read,  *)
(*               seek), src/collection/readers/ntfs_reader.rs, over an     *)
(*               in-memory inner stream.                                   *)
(*                                                                         *)
(*   SpecParse   the two parse_stream functions (ntfs_reader.rs and         *)
(*               Collecter::parse_stream), applied to bounded path strings. *)
(*                                                                         *)
(*   SpecRules   the add operations of the three collectors                *)
(*               (FileCollecter::add_rule, MemoryCollecter::add_rule,      *)
(*               Collecter::add_rule_from_file) on one collector.          *)
(*                                                                         *)
(*   SpecCollect the collect operations of one collector                   *)
(*               (collect_by_rulename, collect_all) and the Drop of a      *)
(*               MemoryCollecter, with the dump files it leaves on disk.   *)
(*                                                                         *)
(*   SpecCopy    the raw copy of one NTFS data stream: copy_file           *)
(*               (ntfs_reader.rs) and the copy loop of                     *)
(*               Collecter::compress_file_raw, buffer by buffer.           *)
(*                                                                         *)
(*   SpecScan    MemoryCollecter::collect_by_rule, the loops over the      *)
(*               processes and over the rule's process names.              *)
(*                                                                         *)
(*   SpecResolve the NTFS path resolution of open_file and                 *)
(*               does_file_exist (ntfs_reader.rs) on a small volume.       *)
(*                                                                         *)
(*   SpecNames   on Windows, from a rule's path to the artefact string the *)
(*               collectors emit for it and to the name of its archive     *)
(*               entry.                                                    *)
(*                                                                         *)
(*   SpecRun     the run of `collect --all` (bin.rs): collect_all, then    *)
(*               compress_collection, on one Collecter.                    *)
(*                                                                         *)
(*   SpecWalk    FileCollecter::search_filesystem: the workers of the      *)
(*               parallel walk, the channel and the collecting thread;     *)
(*               SpecWalkFair adds that every thread gets to run.          *)
(*                                                                         *)
(* Each specification holds the other parts' variables at their idle       *)
(* values.                                                                 *)
(***************************************************************************)
EXTENDS Integers, Sequences, FiniteSets, TLC

(***************************************************************************)
(* Bounds of the model.                                                    *)
(***************************************************************************)
\* Distinct artefact strings that the collect phase can have emitted.
NumArtefacts == 2
\* Longest artefact list handed to compress_collection: long enough to repeat
\* an artefact with another one in between.
MaxFiles == NumArtefacts + 1
\* Longest artefact body, in buffer-sized chunks.
MaxChunks == 1

\* Width in bits of the model's u64/usize/i64 (64 in the program).
PosBits == 3
\* Longest buffer handed to SectorReader::read.
MaxReadLen == 3

\* Longest path string handed to parse_stream.
MaxPathLen == 5
\* Distinct rule names.
NumRuleNames == 2
\* Most artefacts one rule's collection finds, and most calls of dump_memory
\* it makes.
MaxFound == 2

\* Longest data stream the raw copy reads, in bytes.
MaxStreamLen == 3
\* Most entries of a file's attribute list, most data runs of one attribute,
\* and the largest allocated size of a hole run.
MaxListEntries == 2
MaxRuns == 2
MaxRunSize == 2

\* Most processes get_processes returns, and most process names of a rule.
MaxProcesses == 2
MaxPatterns == 2

\* Distinct file names on the volume, and most components of a path.
NumNames == 2
MaxComponents == 3

\* Entries a walk visits, worker threads of the walk, patterns of a rule.
NumEntries == 3
NumWorkers == 2
NumPatterns == 2

Artefacts == 1..NumArtefacts

VARIABLES
    \* --- Collecter (collecter.rs:32-36) and the run of compress_collection
    windows,         \* cfg(target_os = "windows") (TRUE) or "linux" (FALSE)
    encryption_key,  \* Collecter.encryption_key: "None" or "Some"
    files,           \* Collecter.files
    pc,              \* position in compress_collection: idle, loop, done
    idx,             \* index of the next element of `for file_path in &self.files`
    output_created,  \* File::create(output_file) has created the output file
    zip_entries,     \* members started in the ZipWriter, in order
    finish_calls,    \* number of calls of zip.finish()
    result,          \* what compress_collection returned ("none" while running)
    files0,          \* history: Collecter.files when compress_collection was called
    attempts,        \* history: the artefacts the loop has handled, with what happened
    \* --- SectorReader (ntfs_reader.rs:203-216) and its inner stream
    sr_state,        \* "none": not constructed, "failed": new returned Err, "ready"
    sector_size,     \* SectorReader.sector_size
    stream_position, \* SectorReader.stream_position
    inner_pos,       \* position of the inner stream
    src_len,         \* length of the inner stream's data
    last,            \* history: the last call on the SectorReader and what it did
    \* --- parse_stream (ntfs_reader.rs:17-29, collecter.rs:111-118)
    ps_path,         \* the path string the functions are applied to
    ps_reader,       \* what readers::ntfs_reader::parse_stream returned for it
    ps_collecter,    \* what Collecter::parse_stream returned for it
    \* --- one collector: a FileCollecter (file/collecter.rs:17-20), a
    \* MemoryCollecter (memory/collecter.rs:18-21) or a Collecter
    self,            \* which of the three the calls are made on
    rules,           \* its field `rules`
    last_add,        \* history: the last add operation and what it did
    collected,       \* its artefact list: `files` of a FileCollecter or a
                     \* Collecter, `memory_dumps` of a MemoryCollecter
    cpc,             \* position in collect_all: idle, loop
    cidx,            \* index of the next element of `for rule in &self.rules`
    disk,            \* the dump files that exist in the working directory
    dropped,         \* the collector has been dropped
    created,         \* history: the dump files dump_memory has created
    remove_attempts, \* history: the calls of remove_file made by drop
    last_collect,    \* history: the last collect operation and what it did
    \* --- one raw copy of a data stream (ntfs_reader.rs:31-109,
    \* collecter.rs:246-270)
    cp_fn,           \* the function that copies: copy_file or compress_file_raw
    cp_len,          \* length of the selected data stream, in bytes
    cp_sparse,       \* the stream's attribute has the flag SPARSE
    cp_list,         \* the entries of the file's attribute list
    cp_pc,           \* position in the function: idle, loop, done
    cp_start,        \* starting_position
    cp_pos,          \* position of data_value
    cp_buf,          \* buf
    cp_sink,         \* the bytes written to the sink, in order
    cp_read,         \* history: the bytes the reads have returned, in order
    cp_result,       \* what the function returned ("none" while running)
    \* --- one call of MemoryCollecter::collect_by_rule
    \* (memory/collecter.rs:239-268)
    sc_processes,    \* processes: for each, the name entries that match it
    sc_rule,         \* rule: the number of process_names, and pids
    sc_pc,           \* position in the function: idle, loop, done
    sc_i,            \* index of the current element of `for process in processes`
    sc_k,            \* index of the next element of `for process_name in ..`
    sc_calls,        \* history: the calls of dump_memory, in order
    sc_memory_dumps, \* memory_dumps: the process of each dump pushed
    sc_result,       \* what the function returned ("none" while running)
    \* --- one call of does_file_exist (ntfs_reader.rs:159-165) and of the
    \* open_file in it (130-157)
    rs_volume,       \* the directory indexes of the volume
    rs_path,         \* file_path, as its components
    rs_pc,           \* position: idle, loop, opened (open_file returned), done
    rs_dir,          \* current_directory.last(), as the components leading to it
    rs_idx,          \* index of the next component
    rs_opened,       \* what open_file returned
    rs_exists,       \* what does_file_exist returned
    \* --- one rule path on Windows, the artefact emitted for it and the
    \* archive entry started for the artefact
    nm_pattern,      \* an element of rule.paths (rule.path for a Collecter)
    nm_emitted,      \* the artefact string emitted, by which code, and the
                     \* stream name it was given
    nm_entry,        \* the name of the entry started, and by which writer
    \* --- one call of FileCollecter::search_filesystem
    \* (file/collecter.rs:58-120)
    wk_tree,         \* the entries the walk visits
    wk_todo,         \* the entries not yet handed to a worker
    wk_pc,           \* position of the calling thread
    wk_senders,      \* the senders of the channel that are not dropped
    wk_channel,      \* the paths sent and not yet received
    wk_collector,    \* the collecting thread: none, receiving, finished
    wk_found,        \* found, of the collecting thread
    wk_returned      \* what search_filesystem returned

archVars == <<windows, encryption_key, files, pc, idx, output_created, zip_entries,
              finish_calls, result, files0, attempts>>
secVars == <<sr_state, sector_size, stream_position, inner_pos, src_len, last>>
parseVars == <<ps_path, ps_reader, ps_collecter>>
collectVars == <<collected, cpc, cidx, disk, dropped, created, remove_attempts, last_collect>>
collVars == <<self, rules, last_add, collectVars>>
copyVars == <<cp_fn, cp_len, cp_sparse, cp_list, cp_pc, cp_start, cp_pos, cp_buf, cp_sink,
              cp_read, cp_result>>
scanVars == <<sc_processes, sc_rule, sc_pc, sc_i, sc_k, sc_calls, sc_memory_dumps, sc_result>>
resolveVars == <<rs_volume, rs_path, rs_pc, rs_dir, rs_idx, rs_opened, rs_exists>>
nameVars == <<nm_pattern, nm_emitted, nm_entry>>
walkVars == <<wk_tree, wk_todo, wk_pc, wk_senders, wk_channel, wk_collector,
              wk_found, wk_returned>>
extVars == <<copyVars, scanVars, resolveVars, nameVars, walkVars>>
vars == <<archVars, secVars, parseVars, collVars, extVars>>

\* What each specification leaves alone.
exceptArch == <<secVars, parseVars, collVars, extVars>>
exceptSector == <<archVars, parseVars, collVars, extVars>>
exceptParse == <<archVars, secVars, collVars, extVars>>
exceptColl == <<archVars, secVars, parseVars, extVars>>
coreVars == <<archVars, secVars, parseVars, collVars>>
exceptCopy == <<coreVars, scanVars, resolveVars, nameVars, walkVars>>
exceptScan == <<coreVars, copyVars, resolveVars, nameVars, walkVars>>
exceptResolve == <<coreVars, copyVars, scanVars, nameVars, walkVars>>
exceptNames == <<coreVars, copyVars, scanVars, resolveVars, walkVars>>
exceptWalk == <<coreVars, copyVars, scanVars, resolveVars, nameVars>>

(***************************************************************************)
(* Helpers on sequences.                                                   *)
(***************************************************************************)
Range(s) == {s[i] : i \in 1..Len(s)}

SeqsUpTo(S, n) == UNION {[1..k -> S] : k \in 0..n}

\* Index of the first occurrence of x in s (0 when absent).
FirstIndex(s, x) ==
    IF x \in Range(s) THEN CHOOSE i \in 1..Len(s) : s[i] = x /\ \A j \in 1..(i-1) : s[j] # x
    ELSE 0

(***************************************************************************)
(* Deduplication, collecter.rs:363-365:                                    *)
(*     let mut unique_files = HashSet::new();                              *)
(*     self.files.retain(|file| unique_files.insert(file.clone()));        *)
(* retain visits the elements in order and keeps those for which the       *)
(* closure returns true; HashSet::insert returns true iff the value was    *)
(* not yet in the set.                                                     *)
(***************************************************************************)
RECURSIVE RetainUnique(_, _, _)
RetainUnique(s, unique_files, kept) ==
    IF s = <<>> THEN kept
    ELSE IF Head(s) \in unique_files
         THEN RetainUnique(Tail(s), unique_files, kept)
         ELSE RetainUnique(Tail(s), unique_files \cup {Head(s)}, Append(kept, Head(s)))

\* Vec::dedup: drops only consecutive repetitions.
RECURSIVE DedupConsecutive(_)
DedupConsecutive(s) ==
    IF Len(s) <= 1 THEN s
    ELSE IF s[1] = s[2] THEN DedupConsecutive(Tail(s))
         ELSE <<s[1]>> \o DedupConsecutive(Tail(s))

Dedup(s) == RetainUnique(s, {}, <<>>)

(***************************************************************************)
(* The environment of one iteration of the archive loop: whether the OS    *)
(* can open the artefact, which step of archiving it fails (if any), how   *)
(* many chunks its body has, and after how many chunks a body failure      *)
(* comes.  The steps are the fallible calls of the code, in its order.     *)
(***************************************************************************)
\* The OS path: "metadata" is collecter.rs:390 (metadata()?, modified()?),
\* "start" 321-338 (the conversion of the time by try_into()?, then
\* start_file_from_path(..)?), "read" 342 (fill_buf()?), "write" 343
\* (write_all(..)?).
OsSteps == {"metadata", "start", "read", "write", "none"}
\* The raw path: "resolve" is collecter.rs:194-217 and 277-280 (the volume is
\* opened and parsed, the path resolved to a file, its time read), "start"
\* 219-244 (try_into()?, start_file_from_path(..)?), "stream" 246-255 (the
\* file has no data stream of that name, or its value cannot be opened),
\* "read" 260, "write" 264-267.
RawSteps == {"resolve", "start", "stream", "read", "write", "none"}

Outcomes(win) ==
    { o \in [os_open : BOOLEAN, fail : OsSteps \cup RawSteps \cup {"open"},
             at : 0..MaxChunks, size : 0..MaxChunks] :
        /\ o.os_open => o.fail \in OsSteps
        /\ (~o.os_open /\ win) => o.fail \in RawSteps
        /\ (~o.os_open /\ ~win) => o.fail = "open"
        /\ o.fail \in {"read", "write"} => o.at <= o.size
        /\ o.fail = "write" => o.at < o.size
        /\ o.fail \notin {"read", "write"} => o.at = 0
        /\ o.fail \notin {"read", "write", "none"} => o.size = 0 }

Entry(f, via, key, written) ==
    [artefact |-> f, via |-> via, aes |-> (key = "Some"), written |-> written]

(***************************************************************************)
(* Collecter::compress_file, collecter.rs:314-353: the options are built   *)
(* (the conversion of the modification time can fail), the entry is        *)
(* started, and the body is copied buffer by buffer; every failure is      *)
(* returned with `?`.  Nothing removes an entry that was started.          *)
(***************************************************************************)
compress_file(f, o, key) ==
    IF o.fail = "start"
    THEN [entries |-> <<>>, ok |-> FALSE]
    ELSE IF o.fail \in {"read", "write"}
    THEN [entries |-> <<Entry(f, "os", key, o.at)>>, ok |-> FALSE]
    ELSE [entries |-> <<Entry(f, "os", key, o.size)>>, ok |-> TRUE]

(***************************************************************************)
(* Collecter::compress_file_raw, collecter.rs:178-281: the volume is       *)
(* opened and the path resolved; for the file found, the entry is started  *)
(* (219-244) BEFORE the data stream is looked up (246-255) and copied      *)
(* (259-268).  A read error returns Err, a write error breaks out of the   *)
(* loop and returns Ok(()).  The entry's options take AES-256 with the key  *)
(* when encryption_key is Some (219-223), as those of compress_file do      *)
(* (321-325).                                                              *)
(***************************************************************************)
\* The raw writer with the options of the branch without a key (232-235).
compress_file_raw_unencrypted(f, o, key) ==
    IF o.fail \in {"resolve", "start"}
    THEN [entries |-> <<>>, ok |-> FALSE]
    ELSE IF o.fail = "stream"
    THEN [entries |-> <<Entry(f, "raw", "None", 0)>>, ok |-> FALSE]
    ELSE IF o.fail = "read"
    THEN [entries |-> <<Entry(f, "raw", "None", o.at)>>, ok |-> FALSE]
    ELSE IF o.fail = "write"
    THEN [entries |-> <<Entry(f, "raw", "None", o.at)>>, ok |-> TRUE]
    ELSE [entries |-> <<Entry(f, "raw", "None", o.size)>>, ok |-> TRUE]

compress_file_raw(f, o, key) ==
    IF o.fail \in {"resolve", "start"}
    THEN [entries |-> <<>>, ok |-> FALSE]
    ELSE IF o.fail = "stream"
    THEN [entries |-> <<Entry(f, "raw", key, 0)>>, ok |-> FALSE]
    ELSE IF o.fail = "read"
    THEN [entries |-> <<Entry(f, "raw", key, o.at)>>, ok |-> FALSE]
    ELSE IF o.fail = "write"
    THEN [entries |-> <<Entry(f, "raw", key, o.at)>>, ok |-> TRUE]
    ELSE [entries |-> <<Entry(f, "raw", key, o.size)>>, ok |-> TRUE]

(***************************************************************************)
(* The body of the archive loop, collecter.rs:367-401, for artefact f:     *)
(* entries it adds to the writer, and whether it leaves compress_collection*)
(* with an error (abort).  When File::open fails, Windows tries the raw    *)
(* writer and continues whatever it returns; Linux continues.  When it     *)
(* succeeds, metadata()?, modified()? and compress_file(..)? return their  *)
(* error from compress_collection.                                         *)
(***************************************************************************)
\* The ways of reading artefact f that one iteration tries, in its order:
\* File::open first (368-371), the raw writer after it when that has failed
\* (373-385, Windows only).
tried(win, o) ==
    IF ~o.os_open /\ win THEN <<"os", "raw">> ELSE <<"os">>

ArchiveOne(win, f, o, key) ==
    IF ~o.os_open
    THEN IF win
         THEN [entries |-> compress_file_raw(f, o, key).entries, abort |-> FALSE]
         ELSE [entries |-> <<>>, abort |-> FALSE]
    ELSE IF o.fail = "metadata"
         THEN [entries |-> <<>>, abort |-> TRUE]
         ELSE [entries |-> compress_file(f, o, key).entries,
               abort |-> ~compress_file(f, o, key).ok]

(***************************************************************************)
(* compress_collection, collecter.rs:355-405, in three kinds of step.      *)
(***************************************************************************)
\* 356-365: create the output file, wrap it in a ZipWriter, reject an empty
\* list, deduplicate.
CompressCollectionOpen ==
    /\ pc = "idle"
    /\ files0' = files
    /\ \E create_ok \in BOOLEAN :
        IF ~create_ok
        THEN /\ result' = "ErrCreate"
             /\ pc' = "done"
             /\ UNCHANGED <<files, output_created>>
        ELSE /\ output_created' = TRUE
             /\ IF files = <<>>
                THEN /\ result' = "NothingToCompress"
                     /\ pc' = "done"
                     /\ UNCHANGED files
                ELSE /\ files' = Dedup(files)
                     /\ pc' = "loop"
                     /\ UNCHANGED result
    /\ idx' = 1
    /\ UNCHANGED <<windows, encryption_key, zip_entries, finish_calls, attempts>>

\* 367-401: one iteration of the loop.
ArchiveArtefact ==
    /\ pc = "loop"
    /\ idx <= Len(files)
    /\ \E o \in Outcomes(windows) :
        LET f == files[idx]
            r == ArchiveOne(windows, f, o, encryption_key)
        IN  /\ zip_entries' = zip_entries \o r.entries
            /\ attempts' = Append(attempts,
                   [artefact |-> f, fail |-> o.fail,
                    started |-> (r.entries # <<>>), os_open |-> o.os_open,
                    tried |-> tried(windows, o)])
            /\ IF r.abort
               THEN /\ result' = "ErrArtefact"
                    /\ pc' = "done"
                    /\ UNCHANGED idx
               ELSE /\ idx' = idx + 1
                    /\ UNCHANGED <<result, pc>>
    /\ UNCHANGED <<windows, encryption_key, files, output_created, finish_calls, files0>>

\* 403-404: zip.finish()?; Ok(())
CompressCollectionFinish ==
    /\ pc = "loop"
    /\ idx > Len(files)
    /\ finish_calls' = finish_calls + 1
    /\ \E finish_ok \in BOOLEAN :
        result' = IF finish_ok THEN "Ok" ELSE "ErrFinish"
    /\ pc' = "done"
    /\ UNCHANGED <<windows, encryption_key, files, idx, output_created, zip_entries,
                   files0, attempts>>


(***************************************************************************)
(* SectorReader, ntfs_reader.rs:203-316 (reader_windows.rs:94-207 is the   *)
(* same code).  Integers keep the width PosBits: u64 and usize are         *)
(* 0..MaxU, i64 is MinI..MaxI.  The inner stream is an in-memory stream    *)
(* of src_len bytes whose byte at offset i is SrcByte(i): its seek to an   *)
(* absolute position always succeeds, its read_exact fails when fewer      *)
(* bytes remain than asked for.                                            *)
(***************************************************************************)
Pow2(k) == 2^k
Modulus == Pow2(PosBits)
MaxU == Modulus - 1
MinI == -Pow2(PosBits - 1)
MaxI == Pow2(PosBits - 1) - 1
None == -1

SrcByte(i) == i
Slice(from, n) == [k \in 1..n |-> SrcByte(from + k - 1)]

\* usize::count_ones
count_ones(n) == Cardinality({b \in 0..(PosBits - 1) : (n \div Pow2(b)) % 2 = 1})

\* n & m on PosBits bits
RECURSIVE BitAnd(_, _, _)
BitAnd(n, m, bits) ==
    IF bits = 0 THEN 0
    ELSE (n % 2) * (m % 2) + 2 * BitAnd(n \div 2, m \div 2, bits - 1)

\* usize::is_power_of_two: count_ones() == 1
is_power_of_two(n) == count_ones(n) = 1

\* The bit trick without its test for zero: n & (n - 1) == 0.
new_accepts_bit_trick(s) == BitAnd(s, (s - 1) % Modulus, PosBits) = 0

\* ntfs_reader.rs:223-228: the sector sizes SectorReader::new accepts
new_accepts(s) == is_power_of_two(s)

\* ntfs_reader.rs:238-240
align_down_unaligned(ss, n) == n

align_down_to_sector_size(ss, n) == (n \div ss) * ss

\* ntfs_reader.rs:242-244
align_up_to_sector_size(ss, n) == align_down_to_sector_size(ss, n) + ss

\* u64::checked_add, u64::checked_sub, i64::wrapping_neg, `as u64`
checked_add(a, b) == IF a + b <= MaxU THEN a + b ELSE None
checked_sub(a, b) == IF a >= b THEN a - b ELSE None
wrapping_neg(n) == IF n = MinI THEN MinI ELSE -n
as_u64(n) == n % Modulus

SeekFroms ==
    [kind : {"Start"}, n : 0..MaxU] \cup [kind : {"End", "Current"}, n : MinI..MaxI]

\* Current(n) added as if n were unsigned.
seek_new_pos_unsigned(p, pos) ==
    IF pos.kind = "Start" THEN pos.n
    ELSE IF pos.kind = "End" THEN None
    ELSE checked_add(p, as_u64(pos.n))

\* ntfs_reader.rs:279-297: the position a seek asks for (None: Err)
seek_new_pos(p, pos) ==
    IF pos.kind = "Start" THEN pos.n
    ELSE IF pos.kind = "End" THEN None
    ELSE IF pos.n >= 0 THEN checked_add(p, as_u64(pos.n))
         ELSE checked_sub(p, as_u64(wrapping_neg(pos.n)))

\* What the previous call was, as far as the next one's history needs it.
Summary(l) ==
    IF l.op = "seek" /\ l.ok /\ l.kind = "Start" THEN "seek_start"
    ELSE IF l.op = "read" /\ l.ok THEN "read"
    ELSE "other"

NoCall == [op |-> "none", kind |-> "", arg |-> 0, ok |-> FALSE, err |-> "", ret |-> 0,
           p |-> 0, data |-> <<>>, inner_ops |-> <<>>, prev |-> "other"]

\* SectorReader::new, ntfs_reader.rs:222-236
SectorReaderNew ==
    /\ sr_state \in {"none", "failed"}
    /\ \E s \in 0..MaxU :
        /\ IF ~new_accepts(s)
           THEN /\ sr_state' = "failed"
                /\ UNCHANGED <<sector_size, stream_position>>
           ELSE /\ sr_state' = "ready"
                /\ sector_size' = s
                /\ stream_position' = 0
        /\ last' = [NoCall EXCEPT !.op = "new", !.arg = s, !.ok = new_accepts(s),
                                  !.err = IF new_accepts(s) THEN "" ELSE "Other",
                                  !.prev = Summary(last)]
    /\ UNCHANGED <<inner_pos, src_len>>

\* SectorReader::read, ntfs_reader.rs:251-271, with a buffer of len bytes
SectorReaderRead ==
    /\ sr_state = "ready"
    /\ \E len \in 0..MaxReadLen :
        LET aligned_position == align_down_to_sector_size(sector_size, stream_position)
            start == stream_position - aligned_position
            end == start + len
            aligned_bytes_to_read == align_up_to_sector_size(sector_size, end)
            temp_buf == Slice(inner_pos, aligned_bytes_to_read)
            issued == <<[kind |-> "read", pos |-> inner_pos, len |-> aligned_bytes_to_read]>>
        IN  IF inner_pos + aligned_bytes_to_read <= src_len
            THEN \* read_exact filled temp_buf
                 /\ inner_pos' = inner_pos + aligned_bytes_to_read
                 /\ stream_position' = (stream_position + len) % Modulus
                 /\ last' = [NoCall EXCEPT !.op = "read", !.arg = len, !.ok = TRUE,
                                 !.ret = len, !.p = stream_position,
                                 !.data = SubSeq(temp_buf, start + 1, end),
                                 !.inner_ops = issued, !.prev = Summary(last)]
            ELSE \* read_exact met the end of the data: UnexpectedEof.  The inner
                 \* stream is left at its end (a Cursor), or where it was when it
                 \* was already past the end (a File).
                 /\ inner_pos' \in {src_len, IF inner_pos > src_len THEN inner_pos ELSE src_len}
                 /\ UNCHANGED stream_position
                 /\ last' = [NoCall EXCEPT !.op = "read", !.arg = len, !.ok = FALSE,
                                 !.err = "UnexpectedEof", !.p = stream_position,
                                 !.inner_ops = issued, !.prev = Summary(last)]
    /\ UNCHANGED <<sr_state, sector_size, src_len>>

\* SectorReader::seek, ntfs_reader.rs:278-315
SectorReaderSeek ==
    /\ sr_state = "ready"
    /\ \E pos \in SeekFroms :
        LET new_pos == seek_new_pos(stream_position, pos)
            aligned_n == align_down_to_sector_size(sector_size, new_pos)
        IN  IF new_pos # None
            THEN /\ inner_pos' = aligned_n
                 /\ stream_position' = new_pos
                 /\ last' = [NoCall EXCEPT !.op = "seek", !.kind = pos.kind, !.arg = pos.n,
                                 !.ok = TRUE, !.ret = new_pos, !.p = stream_position,
                                 !.inner_ops = <<[kind |-> "seek", pos |-> aligned_n, len |-> 0]>>,
                                 !.prev = Summary(last)]
            ELSE /\ UNCHANGED <<inner_pos, stream_position>>
                 /\ last' = [NoCall EXCEPT !.op = "seek", !.kind = pos.kind, !.arg = pos.n,
                                 !.ok = FALSE, !.p = stream_position,
                                 !.err = IF pos.kind = "End" THEN "Other" ELSE "InvalidInput",
                                 !.prev = Summary(last)]
    /\ UNCHANGED <<sr_state, sector_size, src_len>>

(***************************************************************************)
(* parse_stream.  A path is a sequence of characters, ':' among them;      *)
(* indexes of the code are 0-based, those of the sequences 1-based.        *)
(***************************************************************************)
Colon == ":"
Chars == {Colon, "a", "b"}
Paths == SeqsUpTo(Chars, MaxPathLen)

\* str::rfind(c): the 0-based index of the last c of s (None when absent)
rfind(s, c) ==
    IF c \in Range(s)
    THEN (CHOOSE i \in 1..Len(s) : s[i] = c /\ \A j \in (i + 1)..Len(s) : s[j] # c) - 1
    ELSE None

\* str::split_at(pos)
split_at(s, pos) == <<SubSeq(s, 1, pos), SubSeq(s, pos + 1, Len(s))>>

\* String::replace(":", "")
RECURSIVE replace_colons(_)
replace_colons(s) ==
    IF s = <<>> THEN <<>>
    ELSE IF Head(s) = Colon THEN replace_colons(Tail(s))
         ELSE <<Head(s)>> \o replace_colons(Tail(s))

\* readers::ntfs_reader::parse_stream, ntfs_reader.rs:17-29
parse_stream(path) ==
    LET pos == rfind(path, Colon)
    IN  IF pos # None
        THEN IF pos = 1
             THEN [file_path |-> path, stream |-> <<>>]
             ELSE [file_path |-> split_at(path, pos)[1],
                   stream |-> replace_colons(split_at(path, pos)[2])]
        ELSE [file_path |-> path, stream |-> <<>>]

\* Collecter::parse_stream, collecter.rs:111-118: the same without the test
\* for the drive-letter separator.
Collecter_parse_stream(path) ==
    LET pos == rfind(path, Colon)
    IN  IF pos # None
        THEN [file_path |-> split_at(path, pos)[1],
              stream |-> replace_colons(split_at(path, pos)[2])]
        ELSE [file_path |-> path, stream |-> <<>>]

NotParsed == [called |-> FALSE, file_path |-> <<>>, stream |-> <<>>]

Parsed(r) == [called |-> TRUE, file_path |-> r.file_path, stream |-> r.stream]

ParseStream ==
    /\ ~ps_reader.called
    /\ ps_reader' = Parsed(parse_stream(ps_path))
    /\ UNCHANGED <<ps_path, ps_collecter>>

CollecterParseStream ==
    /\ ~ps_collecter.called
    /\ ps_collecter' = Parsed(Collecter_parse_stream(ps_path))
    /\ UNCHANGED <<ps_path, ps_reader>>

ParseIdle ==
    /\ ps_path = <<>>
    /\ ps_reader = NotParsed
    /\ ps_collecter = NotParsed

(***************************************************************************)
(* Rules (rules.rs:9-44) and the add operations of the collectors.  A rule *)
(* is its variant and the header fields the collectors look at.            *)
(***************************************************************************)
RuleNames == 1..NumRuleNames
Variants == {"MemoryRule", "FileRule", "CommandRule"}
Platforms == {"windows", "linux"}
RuleTypes == {"file", "memory"}

CollectionRules ==
    [variant : Variants, name : RuleNames, platform : Platforms, rule_type : RuleTypes]

\* env::consts::OS
OS == IF windows THEN "windows" ELSE "linux"

\* A rule document: the field groups it has besides the header (those of a
\* MemoryRule: process_names and pids, of a FileRule: paths and
\* recursion_depth, of a CommandRule: binary and arguments), and its header.
Documents ==
    [fields : {{}, {"memory"}, {"file"}, {"command"}, {"memory", "file"}},
     name : RuleNames, platform : Platforms, rule_type : RuleTypes]

\* A file that cannot be read, for from_yaml_file (rules.rs:98-101).
Unreadable == [fields |-> {}, name |-> 0, platform |-> "", rule_type |-> ""]

NoRule == [variant |-> "none", name |-> 0, platform |-> "", rule_type |-> ""]

\* CollectionRule::from_yaml_string, rules.rs:47-58: the first of MemoryRule,
\* FileRule, CommandRule whose fields the document has; rule_type is a string
\* field that is copied and never compared with the variant.
from_yaml_string(doc) ==
    LET as(v) == [variant |-> v, name |-> doc.name, platform |-> doc.platform,
                  rule_type |-> doc.rule_type]
    IN  IF "memory" \in doc.fields THEN [ok |-> TRUE, rule |-> as("MemoryRule")]
        ELSE IF "file" \in doc.fields THEN [ok |-> TRUE, rule |-> as("FileRule")]
        ELSE IF "command" \in doc.fields THEN [ok |-> TRUE, rule |-> as("CommandRule")]
        ELSE [ok |-> FALSE, rule |-> NoRule]

\* The rules callers can hand to add_rule: what from_yaml_string returns.
ParsedRules == { from_yaml_string(doc).rule : doc \in {d \in Documents : d.fields # {}} }

\* The documents handed to Collecter::add_rule_from_file: collecter.rs reads a
\* rule's name, platform and path (49, 52, 84-94), so its rules are file
\* rules; besides them, files that do not parse or cannot be read.
FileRuleDocuments ==
    { d \in Documents : d.fields = {"file"} /\ d.rule_type = "file" }
        \cup { d \in Documents : d.fields = {} } \cup {Unreadable}

NameExists(rs, name) == \E i \in 1..Len(rs) : rs[i].name = name

\* add_rule without the test of the name.
add_rule_any_name(rs, new_rule, variant, os) ==
    IF new_rule.variant = variant /\ new_rule.platform = os
    THEN [rules |-> Append(rs, new_rule), ok |-> TRUE, err |-> ""]
    ELSE [rules |-> rs, ok |-> FALSE, err |-> "rejected"]

\* add_rule without the test of the platform.
add_rule_any_platform(rs, new_rule, variant, os) ==
    IF new_rule.variant = variant /\ ~NameExists(rs, new_rule.name)
    THEN [rules |-> Append(rs, new_rule), ok |-> TRUE, err |-> ""]
    ELSE [rules |-> rs, ok |-> FALSE, err |-> "rejected"]

\* FileCollecter::add_rule, file/collecter.rs:39-56, with variant "FileRule";
\* MemoryCollecter::add_rule, memory/collecter.rs:60-77, is the same code
\* with variant "MemoryRule".
add_rule(rs, new_rule, variant, os) ==
    IF new_rule.variant = variant
    THEN IF new_rule.platform # os
         THEN [rules |-> rs, ok |-> FALSE,
               err |-> "Rule platform does not match current platform"]
         ELSE IF NameExists(rs, new_rule.name)
         THEN [rules |-> rs, ok |-> FALSE, err |-> "Rule with this name already exists"]
         ELSE [rules |-> Append(rs, new_rule), ok |-> TRUE, err |-> ""]
    ELSE [rules |-> rs, ok |-> FALSE, err |-> "Only file rules can be added"]

\* Collecter::add_rule_from_file, collecter.rs:47-57, for a file that holds
\* doc or cannot be read (Unreadable).
add_rule_from_file(rs, doc, os) ==
    LET new_rule == from_yaml_string(doc)
    IN  IF ~new_rule.ok
        THEN [rules |-> rs, ok |-> FALSE, err |-> "parse", parsed |-> FALSE, rule |-> NoRule]
        ELSE IF NameExists(rs, new_rule.rule.name)
        THEN [rules |-> rs, ok |-> TRUE, err |-> "", parsed |-> TRUE, rule |-> new_rule.rule]
        ELSE IF new_rule.rule.platform # os
        THEN [rules |-> rs, ok |-> TRUE, err |-> "", parsed |-> TRUE, rule |-> new_rule.rule]
        ELSE [rules |-> Append(rs, new_rule.rule), ok |-> TRUE, err |-> "",
              parsed |-> TRUE, rule |-> new_rule.rule]

NoAdd == [op |-> "none", parsed |-> FALSE, rule |-> NoRule, ok |-> FALSE, err |-> "",
          before |-> <<>>]

Added(op, r, parsed, rule, before) ==
    [op |-> op, parsed |-> parsed, rule |-> rule, ok |-> r.ok, err |-> r.err,
     before |-> before]

FileCollecterAddRule ==
    /\ self = "FileCollecter"
    /\ \E new_rule \in ParsedRules :
        LET r == add_rule(rules, new_rule, "FileRule", OS)
        IN  /\ rules' = r.rules
            /\ last_add' = Added("add_rule", r, TRUE, new_rule, rules)
    /\ UNCHANGED <<self, collectVars>>

MemoryCollecterAddRule ==
    /\ self = "MemoryCollecter"
    /\ \E new_rule \in ParsedRules :
        LET r == add_rule(rules, new_rule, "MemoryRule", OS)
        IN  /\ rules' = r.rules
            /\ last_add' = Added("add_rule", r, TRUE, new_rule, rules)
    /\ UNCHANGED <<self, collectVars>>

CollecterAddRuleFromFile ==
    /\ self = "Collecter"
    /\ \E doc \in FileRuleDocuments :
        LET r == add_rule_from_file(rules, doc, OS)
        IN  /\ rules' = r.rules
            /\ last_add' = Added("add_rule_from_file", r, r.parsed, r.rule, rules)
    /\ UNCHANGED <<self, collectVars>>

\* The rule lists the constructors build (file/collecter.rs:23-37,
\* memory/collecter.rs:40-54, collecter.rs:39-45) from a catalogue whose
\* names are pairwise distinct, for the platform of the build: those of the
\* typed collectors hold rules of their variant and rule_type, those of a
\* Collecter file rules.
Catalogues(which, os) ==
    { rs \in SeqsUpTo(CollectionRules, NumRuleNames) :
        /\ \A i, j \in 1..Len(rs) : i # j => rs[i].name # rs[j].name
        /\ \A i \in 1..Len(rs) :
            /\ rs[i].platform = os
            /\ which \in {"FileCollecter", "Collecter"} =>
                   (rs[i].variant = "FileRule" /\ rs[i].rule_type = "file")
            /\ which = "MemoryCollecter" =>
                   (rs[i].variant = "MemoryRule" /\ rs[i].rule_type = "memory") }

(***************************************************************************)
(* Collecting.  What collect_by_rule returns for a rule is the             *)
(* environment's: the file system searched, the processes that run, the    *)
(* dumps that succeed.  It is a record [ok, artefacts, made]: Ok(artefacts) *)
(* or Err, and the dump files the call has created on disk.                *)
(***************************************************************************)
DumpFiles == 1..MaxFound

\* FileCollecter::collect_by_rule (file/collecter.rs:122-138, 153-184) and
\* Collecter::collect_by_rule (collecter.rs:81-96, 121-146): the paths found,
\* or the error of the search.
FileOutcomes ==
    { [ok |-> TRUE, artefacts |-> found, made |-> {}] : found \in SeqsUpTo(Artefacts, MaxFound) }
        \cup { [ok |-> FALSE, artefacts |-> <<>>, made |-> {}] }

\* The calls of dump_memory one collect_by_rule makes, in order: for a process
\* matched by a name pattern (memory/collecter.rs:247-250, 254-257: an error
\* is printed) or by its pid (263: an error is returned with `?`), and how
\* dump_memory (214-237) ends: "create": File::create fails, no file;
\* "dump": the file is created and canonicalize or the dump fails; "ok".
DumpCalls == SeqsUpTo([via : {"name", "pid"}, outcome : {"create", "dump", "ok"}], MaxFound)

\* The loop of MemoryCollecter::collect_by_rule, memory/collecter.rs:243-265,
\* from call i on; the k-th file created by the collector is dump file k.
RECURSIVE DumpLoop(_, _, _, _, _)
DumpLoop(calls, i, next_file, memory_dumps, made) ==
    IF i > Len(calls)
    THEN [ok |-> TRUE, artefacts |-> memory_dumps, made |-> made]
    ELSE IF calls[i].outcome = "ok"
    THEN DumpLoop(calls, i + 1, next_file + 1, Append(memory_dumps, next_file),
                  made \cup {next_file})
    ELSE LET made_now == IF calls[i].outcome = "dump" THEN made \cup {next_file} ELSE made
             next_now == IF calls[i].outcome = "dump" THEN next_file + 1 ELSE next_file
         IN  IF calls[i].via = "pid"
             THEN [ok |-> FALSE, artefacts |-> <<>>, made |-> made_now]
             ELSE DumpLoop(calls, i + 1, next_now, memory_dumps, made_now)

\* MemoryCollecter::collect_by_rule, memory/collecter.rs:239-268
MemoryOutcomes(next_file) ==
    { DumpLoop(calls, 1, next_file, <<>>, {}) : calls \in DumpCalls }
        \cup { [ok |-> FALSE, artefacts |-> <<>>, made |-> {}] }

CollectOutcomes(which, next_file) ==
    IF which = "MemoryCollecter" THEN MemoryOutcomes(next_file) ELSE FileOutcomes

\* The outcomes that keep the model within its bounds.
Fits(r) ==
    /\ Len(collected) + Len(r.artefacts) <= MaxFound
    /\ r.made \subseteq DumpFiles

\* collect_by_rulename that returns the length of the whole list.
collect_by_rulename_total(rs, rule_name, r, list) ==
    IF ~NameExists(rs, rule_name)
    THEN [ok |-> FALSE, ret |-> 0, list |-> list, called |-> FALSE]
    ELSE IF ~r.ok
    THEN [ok |-> FALSE, ret |-> 0, list |-> list, called |-> TRUE]
    ELSE [ok |-> TRUE, ret |-> Len(list \o r.artefacts), list |-> list \o r.artefacts,
          called |-> TRUE]

\* collect_by_rulename, file/collecter.rs:140-150, memory/collecter.rs:79-89
\* and collecter.rs:98-108 (the same code): r is what collect_by_rule returns
\* for the rule found; called tells whether collect_by_rule was called.
collect_by_rulename(rs, rule_name, r, list) ==
    IF ~NameExists(rs, rule_name)
    THEN [ok |-> FALSE, ret |-> 0, list |-> list, called |-> FALSE]
    ELSE IF ~r.ok
    THEN [ok |-> FALSE, ret |-> 0, list |-> list, called |-> TRUE]
    ELSE [ok |-> TRUE, ret |-> Len(r.artefacts), list |-> list \o r.artefacts,
          called |-> TRUE]

\* The body of the loop of collect_all with the error returned.
collect_all_rule_or_return(r, list) ==
    IF r.ok THEN [list |-> list \o r.artefacts, return |-> FALSE]
    ELSE [list |-> list, return |-> TRUE]

\* The body of the loop of collect_all with the artefacts found put in front
\* of the list.
collect_all_rule_prepending(r, list) ==
    IF r.ok THEN [list |-> r.artefacts \o list, return |-> FALSE]
    ELSE [list |-> list, return |-> FALSE]

\* The body of the loop of collect_all, file/collecter.rs:205-215,
\* memory/collecter.rs:272-282, collecter.rs:167-173: Ok appends, Err prints.
collect_all_rule(r, list) ==
    IF r.ok THEN [list |-> list \o r.artefacts, return |-> FALSE]
    ELSE [list |-> list, return |-> FALSE]

NoCollect == [op |-> "none", name |-> 0, done |-> FALSE, ok |-> FALSE, ret |-> 0,
              rule_ok |-> FALSE, before |-> <<>>, attempted |-> <<>>]

CollectByRulename(which) ==
    /\ self = which
    /\ cpc = "idle"
    /\ ~dropped
    /\ \E rule_name \in RuleNames, r \in CollectOutcomes(which, Cardinality(created) + 1) :
        LET c == collect_by_rulename(rules, rule_name, r, collected)
        IN  /\ Fits(r)
            /\ collected' = c.list
            /\ created' = IF c.called THEN created \cup r.made ELSE created
            /\ disk' = IF c.called THEN disk \cup r.made ELSE disk
            /\ last_collect' = [NoCollect EXCEPT !.op = "collect_by_rulename",
                                    !.name = rule_name, !.done = TRUE, !.ok = c.ok,
                                    !.ret = c.ret, !.rule_ok = (c.called /\ r.ok),
                                    !.before = collected]
    /\ UNCHANGED <<self, rules, last_add, cpc, cidx, dropped, remove_attempts>>

FileCollecterCollectByRulename == CollectByRulename("FileCollecter")

MemoryCollecterCollectByRulename == CollectByRulename("MemoryCollecter")

CollecterCollectByRulename == CollectByRulename("Collecter")

\* collect_all is entered.
CollectAllBegin ==
    /\ self # "none"
    /\ cpc = "idle"
    /\ ~dropped
    /\ cpc' = "loop"
    /\ cidx' = 1
    /\ last_collect' = [NoCollect EXCEPT !.op = "collect_all", !.before = collected]
    /\ UNCHANGED <<self, rules, last_add, collected, disk, dropped, created, remove_attempts>>

\* One iteration of `for rule in &self.rules`.
CollectAllRule(which) ==
    /\ self = which
    /\ cpc = "loop"
    /\ cidx <= Len(rules)
    /\ \E r \in CollectOutcomes(which, Cardinality(created) + 1) :
        LET c == collect_all_rule(r, collected)
        IN  /\ Fits(r)
            /\ collected' = c.list
            /\ created' = created \cup r.made
            /\ disk' = disk \cup r.made
            /\ last_collect' =
                   [last_collect EXCEPT
                       !.attempted = Append(@, [name |-> rules[cidx].name, ok |-> r.ok,
                                                grew |-> Len(c.list) - Len(collected),
                                                found |-> IF r.ok THEN r.artefacts
                                                          ELSE <<>>]),
                       !.done = c.return, !.ok = ~c.return]
            /\ IF c.return
               THEN cpc' = "idle" /\ cidx' = 1
               ELSE cpc' = "loop" /\ cidx' = cidx + 1
    /\ UNCHANGED <<self, rules, last_add, dropped, remove_attempts>>

FileCollecterCollectAll == CollectAllRule("FileCollecter")

MemoryCollecterCollectAll == CollectAllRule("MemoryCollecter")

CollecterCollectAll == CollectAllRule("Collecter")

\* The loop is over: Ok(()).
CollectAllEnd ==
    /\ cpc = "loop"
    /\ cidx > Len(rules)
    /\ cpc' = "idle"
    /\ cidx' = 1
    /\ last_collect' = [last_collect EXCEPT !.done = TRUE, !.ok = TRUE]
    /\ UNCHANGED <<self, rules, last_add, collected, disk, dropped, created, remove_attempts>>

\* std::fs::remove_file(f) with the files of on_disk present and those of
\* denied not deletable: what is left on disk and the error ("" when removed).
remove_file(f, on_disk, denied) ==
    IF f \notin on_disk THEN [disk |-> on_disk, err |-> "NotFound"]
    ELSE IF f \in denied THEN [disk |-> on_disk, err |-> "PermissionDenied"]
    ELSE [disk |-> on_disk \ {f}, err |-> ""]

\* A drop that gives up at the first deletion that fails.
RECURSIVE drop_until_failure(_, _, _, _, _)
drop_until_failure(memory_dumps, i, on_disk, denied, removals) ==
    IF i > Len(memory_dumps)
    THEN [disk |-> on_disk, attempts |-> removals]
    ELSE LET r == remove_file(memory_dumps[i], on_disk, denied)
             now == Append(removals, [path |-> memory_dumps[i], err |-> r.err])
         IN  IF r.err # "" THEN [disk |-> r.disk, attempts |-> now]
             ELSE drop_until_failure(memory_dumps, i + 1, r.disk, denied, now)

\* Drop for MemoryCollecter, memory/collecter.rs:29-37, from element i on.
RECURSIVE drop(_, _, _, _, _)
drop(memory_dumps, i, on_disk, denied, removals) ==
    IF i > Len(memory_dumps)
    THEN [disk |-> on_disk, attempts |-> removals]
    ELSE LET r == remove_file(memory_dumps[i], on_disk, denied)
         IN  drop(memory_dumps, i + 1, r.disk, denied,
                  Append(removals, [path |-> memory_dumps[i], err |-> r.err]))

MemoryCollecterDrop ==
    /\ self = "MemoryCollecter"
    /\ cpc = "idle"
    /\ ~dropped
    /\ dropped' = TRUE
    /\ \E denied \in SUBSET disk :
        LET d == drop(collected, 1, disk, denied, <<>>)
        IN  /\ disk' = d.disk
            /\ remove_attempts' = d.attempts
    /\ UNCHANGED <<self, rules, last_add, collected, cpc, cidx, created, last_collect>>

CollectIdle ==
    /\ collected = <<>>
    /\ cpc = "idle"
    /\ cidx = 1
    /\ disk = {}
    /\ dropped = FALSE
    /\ created = {}
    /\ remove_attempts = <<>>
    /\ last_collect = NoCollect

CollIdle ==
    /\ self = "none"
    /\ rules = <<>>
    /\ last_add = NoAdd
    /\ CollectIdle

(***************************************************************************)
(* The raw copy of a data stream: copy_file, ntfs_reader.rs:31-109, and    *)
(* the tail of Collecter::compress_file_raw, collecter.rs:246-270.  The    *)
(* stream has cp_len bytes; its byte at offset i is StreamByte(i).         *)
(***************************************************************************)
\* `let mut buf = [0u8; 4096]` (ntfs_reader.rs:88, collecter.rs:257): the
\* length of the copy buffer, scaled down.
BufSize == 2

\* The stream's byte at offset i; never 0, the byte the buffer starts with.
StreamByte(i) == i + 1

\* The stream's bytes at the offsets from..(to - 1).
StreamBytes(from, to) == [k \in 1..(to - from) |-> StreamByte(from + k - 1)]

\* A data run of a non-resident value: a hole has no data position; the
\* size of a run that has one is never read.
DataRuns == { r \in [hole : BOOLEAN, allocated_size : 1..MaxRunSize] :
                ~r.hole => r.allocated_size = 1 }

\* An entry of the attribute list: own tells that it lies in the file's own
\* record (ntfs_reader.rs:66-69); runs are the data runs of its value, none
\* for a resident value (73).
ListEntries == [own : BOOLEAN, runs : SeqsUpTo(DataRuns, MaxRuns)]

\* The loop over the data runs with `starting_position += allocated_size`.
RECURSIVE scan_data_runs_accumulating(_, _, _)
scan_data_runs_accumulating(runs, i, position) ==
    IF i > Len(runs) THEN position
    ELSE scan_data_runs_accumulating(runs, i + 1,
             IF runs[i].hole THEN position + runs[i].allocated_size ELSE position)

\* ntfs_reader.rs:74-79: the loop over the data runs of one value, from run
\* i on: a hole ASSIGNS its allocated size to starting_position.
RECURSIVE scan_data_runs(_, _, _)
scan_data_runs(runs, i, position) ==
    IF i > Len(runs) THEN position
    ELSE scan_data_runs(runs, i + 1,
             IF runs[i].hole THEN runs[i].allocated_size ELSE position)

\* ntfs_reader.rs:64-81: the loop over the entries of the attribute list.
RECURSIVE scan_attribute_list(_, _, _)
scan_attribute_list(list, i, position) ==
    IF i > Len(list) THEN position
    ELSE IF list[i].own THEN scan_attribute_list(list, i + 1, position)
    ELSE scan_attribute_list(list, i + 1, scan_data_runs(list[i].runs, 1, position))

\* ntfs_reader.rs:49-84
starting_position(sparse, list) ==
    IF sparse THEN scan_attribute_list(list, 1, 0) ELSE 0

\* data_value.read(.., &mut buf) returning n bytes at position pos: the first
\* n bytes of buf are overwritten, the others keep what they held.
read_into(buf, pos, n) ==
    [k \in 1..BufSize |-> IF k <= n THEN StreamByte(pos + k - 1) ELSE buf[k]]

Zeroes == [k \in 1..BufSize |-> 0]

\* ntfs_reader.rs:35-92: the path is parsed, the volume opened, the file and
\* its stream found (any of it can fail), starting_position computed and
\* data_value positioned there.  What seek does with a position past the end
\* is the ntfs crate's: an error, or a position where every read returns 0.
CopyFileOpen ==
    /\ cp_fn = "copy_file"
    /\ cp_pc = "idle"
    /\ \E opened \in BOOLEAN, seek_ok \in BOOLEAN :
        LET position == starting_position(cp_sparse, cp_list)
        IN  IF ~opened \/ (~seek_ok /\ position > cp_len)
            THEN /\ cp_result' = "Err"
                 /\ cp_pc' = "done"
                 /\ cp_start' = IF opened THEN position ELSE cp_start
                 /\ UNCHANGED <<cp_pos, cp_buf>>
            ELSE /\ cp_start' = position
                 /\ cp_pos' = position
                 /\ cp_buf' = Zeroes
                 /\ cp_pc' = "loop"
                 /\ UNCHANGED cp_result
    /\ UNCHANGED <<cp_fn, cp_len, cp_sparse, cp_list, cp_sink, cp_read>>

\* collecter.rs:246-257: the stream is looked up and its value opened; the
\* copy starts at offset 0.
CompressFileRawOpen ==
    /\ cp_fn = "compress_file_raw"
    /\ cp_pc = "idle"
    /\ \E opened \in BOOLEAN :
        IF ~opened
        THEN /\ cp_result' = "Err"
             /\ cp_pc' = "done"
             /\ UNCHANGED cp_buf
        ELSE /\ cp_buf' = Zeroes
             /\ cp_pc' = "loop"
             /\ UNCHANGED cp_result
    /\ UNCHANGED <<cp_fn, cp_len, cp_sparse, cp_list, cp_start, cp_pos, cp_sink, cp_read>>

\* One iteration of the copy loop (ntfs_reader.rs:94-106, collecter.rs:
\* 259-268): a read of 1..BufSize bytes (0 at the end of the stream, which
\* ends the loop; an error is returned), then write_all of the WHOLE buffer,
\* whose failure ends the loop after `written` bytes of it.
CopyLoop ==
    /\ cp_pc = "loop"
    /\ \E read_ok \in BOOLEAN :
        IF ~read_ok
        THEN /\ cp_result' = "Err"
             /\ cp_pc' = "done"
             /\ UNCHANGED <<cp_pos, cp_buf, cp_sink, cp_read>>
        ELSE IF cp_pos >= cp_len
        THEN /\ cp_result' = "Ok"
             /\ cp_pc' = "done"
             /\ UNCHANGED <<cp_pos, cp_buf, cp_sink, cp_read>>
        ELSE \E bytes_read \in 1..BufSize, write_ok \in BOOLEAN, written \in 0..(BufSize - 1) :
                /\ bytes_read <= cp_len - cp_pos
                /\ cp_buf' = read_into(cp_buf, cp_pos, bytes_read)
                /\ cp_read' = cp_read \o StreamBytes(cp_pos, cp_pos + bytes_read)
                /\ cp_pos' = cp_pos + bytes_read
                /\ IF write_ok
                   THEN /\ written = 0
                        /\ cp_sink' = cp_sink \o cp_buf'
                        /\ UNCHANGED <<cp_result, cp_pc>>
                   ELSE /\ cp_sink' = cp_sink \o SubSeq(cp_buf', 1, written)
                        /\ cp_result' = "Ok"
                        /\ cp_pc' = "done"
    /\ UNCHANGED <<cp_fn, cp_len, cp_sparse, cp_list, cp_start>>

\* ntfs_reader.rs:94-106
CopyFileLoop == cp_fn = "copy_file" /\ CopyLoop

\* collecter.rs:259-268
CompressFileRawLoop == cp_fn = "compress_file_raw" /\ CopyLoop

CopyIdle ==
    /\ cp_fn = "none"
    /\ cp_len = 0
    /\ cp_sparse = FALSE
    /\ cp_list = <<>>
    /\ cp_pc = "idle"
    /\ cp_start = 0
    /\ cp_pos = 0
    /\ cp_buf = <<>>
    /\ cp_sink = <<>>
    /\ cp_read = <<>>
    /\ cp_result = "none"

(***************************************************************************)
(* MemoryCollecter::collect_by_rule, memory/collecter.rs:239-268, loop by  *)
(* loop.  Process i of the list get_processes returned has pid i; which    *)
(* entries of rule.process_names match its name (245-246: the entry is a   *)
(* regex that matches it; 253: the entry is no regex and equals it) is the  *)
(* set sc_processes[i].                                                    *)
(***************************************************************************)
Pids == 1..MaxProcesses

\* The lists get_processes can return for a rule with n process names.
ProcessLists(n) == SeqsUpTo(SUBSET (1..n), MaxProcesses)

\* What one dump_memory call is recorded as.
DumpCall(process, via, ok) == [process |-> process, via |-> via, ok |-> ok]

\* memory/collecter.rs:251, 258: `continue` in the loop over process_names
\* goes on with the next ENTRY for the same process.
after_name_match(i, k, n) == [i |-> i, k |-> k + 1]

\* 239-241
ScanBegin ==
    /\ sc_pc = "idle"
    /\ \E processes_ok \in BOOLEAN :
        IF processes_ok
        THEN sc_pc' = "loop" /\ UNCHANGED sc_result
        ELSE sc_pc' = "done" /\ sc_result' = "Err"
    /\ sc_i' = 1
    /\ sc_k' = 1
    /\ UNCHANGED <<sc_processes, sc_rule, sc_calls, sc_memory_dumps>>

\* 244-260: one iteration of `for process_name in rule.process_names`.  A
\* dump that fails is printed.
ScanProcessName ==
    /\ sc_pc = "loop"
    /\ sc_i <= Len(sc_processes)
    /\ sc_k <= sc_rule.process_names
    /\ IF sc_k \in sc_processes[sc_i]
       THEN \E dump_ok \in BOOLEAN :
               /\ sc_calls' = Append(sc_calls, DumpCall(sc_i, "name", dump_ok))
               /\ sc_memory_dumps' = IF dump_ok THEN Append(sc_memory_dumps, sc_i)
                                     ELSE sc_memory_dumps
               /\ sc_i' = after_name_match(sc_i, sc_k, sc_rule.process_names).i
               /\ sc_k' = after_name_match(sc_i, sc_k, sc_rule.process_names).k
       ELSE /\ sc_k' = sc_k + 1
            /\ UNCHANGED <<sc_i, sc_calls, sc_memory_dumps>>
    /\ UNCHANGED <<sc_processes, sc_rule, sc_pc, sc_result>>

\* 262-264: after the names, the pid; a dump that fails is returned with `?`.
ScanPid ==
    /\ sc_pc = "loop"
    /\ sc_i <= Len(sc_processes)
    /\ sc_k > sc_rule.process_names
    /\ IF sc_i \in sc_rule.pids
       THEN \E dump_ok \in BOOLEAN :
               /\ sc_calls' = Append(sc_calls, DumpCall(sc_i, "pid", dump_ok))
               /\ IF dump_ok
                  THEN /\ sc_memory_dumps' = Append(sc_memory_dumps, sc_i)
                       /\ UNCHANGED <<sc_pc, sc_result>>
                  ELSE /\ sc_pc' = "done"
                       /\ sc_result' = "Err"
                       /\ UNCHANGED sc_memory_dumps
       ELSE UNCHANGED <<sc_calls, sc_memory_dumps, sc_pc, sc_result>>
    /\ sc_i' = sc_i + 1
    /\ sc_k' = 1
    /\ UNCHANGED <<sc_processes, sc_rule>>

\* 267
ScanEnd ==
    /\ sc_pc = "loop"
    /\ sc_i > Len(sc_processes)
    /\ sc_pc' = "done"
    /\ sc_result' = "Ok"
    /\ UNCHANGED <<sc_processes, sc_rule, sc_i, sc_k, sc_calls, sc_memory_dumps>>

ScanIdle ==
    /\ sc_processes = <<>>
    /\ sc_rule = [process_names |-> 0, pids |-> {}]
    /\ sc_pc = "idle"
    /\ sc_i = 1
    /\ sc_k = 1
    /\ sc_calls = <<>>
    /\ sc_memory_dumps = <<>>
    /\ sc_result = "none"

(***************************************************************************)
(* NTFS path resolution: open_file, ntfs_reader.rs:130-157, and            *)
(* does_file_exist, 159-165.  A directory is named by the components that  *)
(* lead to it from the root; the volume gives, for the root and for each   *)
(* directory in the root, what each name is in it.  Directories below      *)
(* those are empty.                                                        *)
(***************************************************************************)
Names == 1..NumNames

Kinds == {"absent", "file", "dir"}

NoEntries == [n \in Names |-> "absent"]

\* The volumes: an index for the root, and one for each name of the root,
\* which has entries only when the name is a directory.
Volumes ==
    { v \in [SeqsUpTo(Names, 1) -> [Names -> Kinds]] :
        \A n \in Names : v[<<>>][n] # "dir" => v[<<n>>] = NoEntries }

\* The paths handed to open_file, as their components.
ComponentPaths == SeqsUpTo(Names, MaxComponents)

\* NtfsFileNameIndex::find(.., next_dir) in the index of directory dir, and
\* is_directory() of the file found.
find(volume, dir, next_dir) ==
    IF dir \in DOMAIN volume THEN volume[dir][next_dir] ELSE "absent"

NotOpened == [ok |-> FALSE, file |-> <<>>]

\* ntfs_reader.rs:135: the root directory is read.
OpenFileBegin ==
    /\ rs_pc = "idle"
    /\ \E read_ok \in BOOLEAN :
        IF read_ok
        THEN rs_pc' = "loop" /\ UNCHANGED rs_opened
        ELSE rs_pc' = "opened" /\ rs_opened' = NotOpened
    /\ rs_dir' = <<>>
    /\ rs_idx' = 1
    /\ UNCHANGED <<rs_volume, rs_path, rs_exists>>

\* 137-154: one iteration of `for dir in Path::new(&file_path).iter()`.  The
\* component is looked up in the index of current_directory.last(): a file
\* is returned, a directory pushed; NOTHING is done when it is not found,
\* and the loop goes on with the next component in the same directory.
OpenFileComponent ==
    /\ rs_pc = "loop"
    /\ rs_idx <= Len(rs_path)
    /\ \E read_ok \in BOOLEAN :
        LET next_dir == rs_path[rs_idx]
            entry == find(rs_volume, rs_dir, next_dir)
        IN  IF ~read_ok
            THEN /\ rs_pc' = "opened"
                 /\ rs_opened' = NotOpened
                 /\ UNCHANGED <<rs_dir, rs_idx>>
            ELSE IF entry = "file"
            THEN /\ rs_pc' = "opened"
                 /\ rs_opened' = [ok |-> TRUE, file |-> Append(rs_dir, next_dir)]
                 /\ UNCHANGED <<rs_dir, rs_idx>>
            ELSE /\ rs_dir' = IF entry = "dir" THEN Append(rs_dir, next_dir) ELSE rs_dir
                 /\ rs_idx' = rs_idx + 1
                 /\ UNCHANGED <<rs_pc, rs_opened>>
    /\ UNCHANGED <<rs_volume, rs_path, rs_exists>>

\* 156: Err("File not found")
OpenFileNotFound ==
    /\ rs_pc = "loop"
    /\ rs_idx > Len(rs_path)
    /\ rs_pc' = "opened"
    /\ rs_opened' = NotOpened
    /\ UNCHANGED <<rs_volume, rs_path, rs_dir, rs_idx, rs_exists>>

\* 161-164: does_file_exist maps what open_file returned to a boolean.
DoesFileExist ==
    /\ rs_pc = "opened"
    /\ rs_pc' = "done"
    /\ rs_exists' = rs_opened.ok
    /\ UNCHANGED <<rs_volume, rs_path, rs_dir, rs_idx, rs_opened>>

ResolveIdle ==
    /\ rs_volume = <<>>
    /\ rs_path = <<>>
    /\ rs_pc = "idle"
    /\ rs_dir = <<>>
    /\ rs_idx = 1
    /\ rs_opened = NotOpened
    /\ rs_exists = FALSE

(***************************************************************************)
(* From a rule's path to an artefact string and from there to the name of  *)
(* its archive entry, on Windows.  Strings are sequences of characters as  *)
(* for parse_stream; the volume is drive C.                                *)
(***************************************************************************)
Backslash == "\\"
Underscore == "_"
DriveLetter == "C"

\* char::is_ascii_alphabetic on the characters of a path
Alphabetic == {"a", "b", DriveLetter}

\* path.chars().filter(|&c| c == ':').count()
CountColons(s) == Cardinality({ i \in 1..Len(s) : s[i] = Colon })

\* str::trim_start_matches(|c: char| c.is_ascii_alphabetic())
RECURSIVE trim_start_alphabetic(_)
trim_start_alphabetic(s) ==
    IF s # <<>> /\ Head(s) \in Alphabetic THEN trim_start_alphabetic(Tail(s)) ELSE s

\* str::trim_start_matches(":")
RECURSIVE trim_start_colons(_)
trim_start_colons(s) ==
    IF s # <<>> /\ Head(s) = Colon THEN trim_start_colons(Tail(s)) ELSE s

\* The paths of the files a walk of C:\ visits (entry.path()).
WalkedPaths == { <<DriveLetter, Colon, Backslash, "a">>,
                 <<DriveLetter, Colon, Backslash, "a", Backslash, "b">> }

\* file/collecter.rs:159-172: the artefact pushed for a rule path whose file
\* does_file_exist has found on drive drive_letter.
probe_artefact(drive_letter, path) ==
    LET parsed == parse_stream(path)
        file_path == IF Colon \in Range(parsed.file_path)
                     THEN trim_start_colons(trim_start_alphabetic(parsed.file_path))
                     ELSE parsed.file_path
    IN  <<drive_letter, Colon, Backslash>> \o file_path \o <<Colon>> \o parsed.stream

\* file/collecter.rs:93-97: what the walk sends for a visited file at `path`
\* that the pattern matches.
walk_artefact(path, pattern) ==
    path \o <<Colon>> \o parse_stream(pattern).stream

\* collecter.rs:126-142, for a rule path without '*': the artefact pushed for
\* drive `drive` (a root such as C:\).
collecter_artefact(drive, rule_path) ==
    LET path == drive \o rule_path
    IN  IF CountColons(path) >= 2
        THEN Collecter_parse_stream(path).file_path \o <<Colon>>
                 \o Collecter_parse_stream(path).stream
        ELSE path

\* collecter.rs:327, 335: the entry name compress_file gives on Windows
compress_file_name(file_path) == replace_colons(file_path)

\* collecter.rs:187-192 and 224-243: the entry name compress_file_raw gives
compress_file_raw_name(file_path) ==
    LET split == CountColons(file_path) >= 2
        path == IF split THEN Collecter_parse_stream(file_path).file_path ELSE file_path
        stream_name == IF split THEN Collecter_parse_stream(file_path).stream ELSE <<>>
    IN  IF stream_name = <<>>
        THEN replace_colons(path)
        ELSE replace_colons(path) \o <<Underscore>> \o stream_name

NotEmitted == [by |-> "none", artefact |-> <<>>, stream |-> <<>>]

NotNamed == [via |-> "none", name |-> <<>>]

\* FileCollecter::collect_by_rule, file/collecter.rs:158-174: the probe finds
\* the rule's path on drive C.
FileCollecterProbe ==
    /\ nm_emitted = NotEmitted
    /\ nm_emitted' = [by |-> "probe", artefact |-> probe_artefact(DriveLetter, nm_pattern),
                      stream |-> parse_stream(nm_pattern).stream]
    /\ UNCHANGED <<nm_pattern, nm_entry>>

\* FileCollecter::search_filesystem, file/collecter.rs:91-103: the pattern
\* matches a visited file.
FileCollecterWalk ==
    /\ nm_emitted = NotEmitted
    /\ \E path \in WalkedPaths :
        nm_emitted' = [by |-> "walk", artefact |-> walk_artefact(path, nm_pattern),
                       stream |-> parse_stream(nm_pattern).stream]
    /\ UNCHANGED <<nm_pattern, nm_entry>>

\* Collecter::collect_by_rule, collecter.rs:121-146
CollecterCollectByRule ==
    /\ nm_emitted = NotEmitted
    /\ LET drive == <<DriveLetter, Colon, Backslash>>
           path == drive \o nm_pattern
       IN  nm_emitted' = [by |-> "collecter",
                          artefact |-> collecter_artefact(drive, nm_pattern),
                          stream |-> IF CountColons(path) >= 2
                                     THEN Collecter_parse_stream(path).stream ELSE <<>>]
    /\ UNCHANGED <<nm_pattern, nm_entry>>

\* compress_collection, collecter.rs:368-372 and 388-399: File::open has
\* opened the artefact, compress_file starts its entry.
CompressFileStart ==
    /\ nm_emitted # NotEmitted
    /\ nm_entry = NotNamed
    /\ nm_entry' = [via |-> "os", name |-> compress_file_name(nm_emitted.artefact)]
    /\ UNCHANGED <<nm_pattern, nm_emitted>>

\* compress_collection, collecter.rs:373-385: File::open has failed,
\* compress_file_raw finds the file and starts its entry.
CompressFileRawStart ==
    /\ nm_emitted # NotEmitted
    /\ nm_entry = NotNamed
    /\ nm_entry' = [via |-> "raw", name |-> compress_file_raw_name(nm_emitted.artefact)]
    /\ UNCHANGED <<nm_pattern, nm_emitted>>

NamesIdle ==
    /\ nm_pattern = <<>>
    /\ nm_emitted = NotEmitted
    /\ nm_entry = NotNamed

(***************************************************************************)
(* FileCollecter::search_filesystem, file/collecter.rs:58-120: the calling *)
(* thread (0), the worker threads of the parallel walk and the thread that *)
(* collects what they send.  The walk hands each entry it visits to one    *)
(* worker, which runs the closure of 79-108 on it; an entry is an error,   *)
(* a directory or a file, with the patterns that match its path or its     *)
(* name.                                                                   *)
(***************************************************************************)
Entries == 1..NumEntries
Workers == 1..NumWorkers
Patterns == 1..NumPatterns
Caller == 0

EntryKinds == { k \in [kind : {"error", "dir", "file"}, matches : SUBSET Patterns] :
                  k.kind = "error" => k.matches = {} }

\* A number for each kind of entry, to list the entries of a tree in one
\* order.
RECURSIVE MatchesRank(_)
MatchesRank(matches) ==
    IF matches = {} THEN 0
    ELSE LET p == CHOOSE q \in matches : TRUE
         IN  2 ^ (p - 1) + MatchesRank(matches \ {p})

KindRank(k) ==
    (CASE k.kind = "error" -> 0 [] k.kind = "dir" -> 1 [] k.kind = "file" -> 2
       [] k.kind = "none" -> 3) * 2 ^ NumPatterns + MatchesRank(k.matches)

\* The trees walked, of up to NumEntries entries: no two entries alike
\* (entries that are alike are treated alike), numbered in the order of
\* their kinds; the walk hands them out in any order.
Trees == { t \in [Entries -> EntryKinds \cup {[kind |-> "none", matches |-> {}]}] :
             \A d, e \in Entries :
                 d < e => (KindRank(t[d]) < KindRank(t[e]) \/ t[e].kind = "none") }

\* The loop over the patterns sending the path for EVERY pattern that
\* matches.
RECURSIVE visit_every_pattern(_, _, _)
visit_every_pattern(matches, path, k) ==
    IF k > NumPatterns THEN <<>>
    ELSE IF k \in matches THEN <<path>> \o visit_every_pattern(matches, path, k + 1)
    ELSE visit_every_pattern(matches, path, k + 1)

\* file/collecter.rs:91-105: the loop over the patterns from pattern k on:
\* the path is sent for the first pattern that matches, and the closure
\* returns.
RECURSIVE visit_patterns(_, _, _)
visit_patterns(matches, path, k) ==
    IF k > NumPatterns THEN <<>>
    ELSE IF k \in matches THEN <<path>>
    ELSE visit_patterns(matches, path, k + 1)

\* file/collecter.rs:79-108: what the closure sends for an entry.
visit(entry, path) ==
    IF entry.kind = "error" THEN <<>>
    ELSE IF entry.kind = "dir" THEN <<>>
    ELSE visit_patterns(entry.matches, path, 1)

\* The original sender kept after the walk.
keep_tx(senders) == senders

\* file/collecter.rs:118: drop(tx)
drop_tx(senders) == senders \ {Caller}

\* 63-78: the walker and the channel are built, and run() makes one closure
\* for each worker thread, each with its clone of tx.
SearchFilesystemBegin ==
    /\ wk_pc = "idle"
    /\ wk_pc' = "walk"
    /\ wk_senders' = {Caller} \cup Workers
    /\ UNCHANGED <<wk_tree, wk_todo, wk_channel, wk_collector, wk_found,
                   wk_returned>>

\* 79-108: the walk hands an entry to a worker, which runs the closure on
\* it.  The send is the closure's one access to what the threads share, and
\* it never blocks, the channel being unbounded: the sends of the workers
\* happen in any order.
WorkerVisit(w) ==
    /\ wk_pc = "walk"
    /\ w \in wk_senders
    /\ \E e \in wk_todo :
        /\ wk_todo' = wk_todo \ {e}
        /\ wk_channel' = wk_channel \o visit(wk_tree[e], e)
    /\ UNCHANGED <<wk_tree, wk_pc, wk_senders, wk_collector, wk_found, wk_returned>>

\* Nothing is left to visit: the worker thread ends and its closure, with
\* its clone of tx, is dropped.
WorkerExit(w) ==
    /\ wk_pc = "walk"
    /\ w \in wk_senders
    /\ wk_todo = {}
    /\ wk_senders' = wk_senders \ {w}
    /\ UNCHANGED <<wk_tree, wk_todo, wk_pc, wk_channel, wk_collector, wk_found,
                   wk_returned>>

\* 110: run() returns when every worker thread has ended.
WalkReturns ==
    /\ wk_pc = "walk"
    /\ wk_senders \cap Workers = {}
    /\ wk_pc' = "spawn"
    /\ UNCHANGED <<wk_tree, wk_todo, wk_senders, wk_channel, wk_collector,
                   wk_found, wk_returned>>

\* 111-117: the collecting thread is spawned, with rx.
SpawnCollector ==
    /\ wk_pc = "spawn"
    /\ wk_pc' = "drop"
    /\ wk_collector' = "receiving"
    /\ UNCHANGED <<wk_tree, wk_todo, wk_senders, wk_channel, wk_found,
                   wk_returned>>

\* 118
DropTx ==
    /\ wk_pc = "drop"
    /\ wk_pc' = "join"
    /\ wk_senders' = drop_tx(wk_senders)
    /\ UNCHANGED <<wk_tree, wk_todo, wk_channel, wk_collector, wk_found,
                   wk_returned>>

\* 113-115: `for path in rx` receives a path and pushes it.
CollectorReceive ==
    /\ wk_collector = "receiving"
    /\ wk_channel # <<>>
    /\ wk_found' = Append(wk_found, Head(wk_channel))
    /\ wk_channel' = Tail(wk_channel)
    /\ UNCHANGED <<wk_tree, wk_todo, wk_pc, wk_senders, wk_collector,
                   wk_returned>>

\* 113, 116: the channel is empty and every sender is dropped: the loop
\* ends and the thread returns found.
CollectorEnd ==
    /\ wk_collector = "receiving"
    /\ wk_channel = <<>>
    /\ wk_senders = {}
    /\ wk_collector' = "finished"
    /\ UNCHANGED <<wk_tree, wk_todo, wk_pc, wk_senders, wk_channel, wk_found,
                   wk_returned>>

\* 119: join() returns what the thread returned.
JoinCollector ==
    /\ wk_pc = "join"
    /\ wk_collector = "finished"
    /\ wk_pc' = "returned"
    /\ wk_returned' = wk_found
    /\ UNCHANGED <<wk_tree, wk_todo, wk_senders, wk_channel, wk_collector,
                   wk_found>>

WalkIdle ==
    /\ wk_tree = <<>>
    /\ wk_todo = {}
    /\ wk_pc = "idle"
    /\ wk_senders = {}
    /\ wk_channel = <<>>
    /\ wk_collector = "none"
    /\ wk_found = <<>>
    /\ wk_returned = <<>>

ExtIdle ==
    /\ CopyIdle
    /\ ScanIdle
    /\ ResolveIdle
    /\ NamesIdle
    /\ WalkIdle

SectorIdle ==
    /\ sr_state = "none"
    /\ sector_size = 0
    /\ stream_position = 0
    /\ inner_pos = 0
    /\ src_len = 0
    /\ last = NoCall

\* A Collecter (collecter.rs:39-45) whose collect phase has filled `files`.
Init ==
    /\ windows \in BOOLEAN
    /\ encryption_key \in {"None", "Some"}
    /\ files \in SeqsUpTo(Artefacts, MaxFiles)
    /\ pc = "idle"
    /\ idx = 1
    /\ output_created = FALSE
    /\ zip_entries = <<>>
    /\ finish_calls = 0
    /\ result = "none"
    /\ files0 = <<>>
    /\ attempts = <<>>
    /\ SectorIdle
    /\ ParseIdle
    /\ CollIdle
    /\ ExtIdle

Next ==
    \/ CompressCollectionOpen /\ UNCHANGED exceptArch
    \/ ArchiveArtefact /\ UNCHANGED exceptArch
    \/ CompressCollectionFinish /\ UNCHANGED exceptArch

Spec == Init /\ [][Next]_vars

ArchiveIdle ==
    /\ windows = FALSE
    /\ encryption_key = "None"
    /\ files = <<>>
    /\ pc = "idle"
    /\ idx = 1
    /\ output_created = FALSE
    /\ zip_entries = <<>>
    /\ finish_calls = 0
    /\ result = "none"
    /\ files0 = <<>>
    /\ attempts = <<>>

\* An inner stream of any length, positioned at 0, and no SectorReader yet.
SectorInit ==
    /\ sr_state = "none"
    /\ sector_size = 0
    /\ stream_position = 0
    /\ inner_pos = 0
    /\ src_len \in 0..MaxU
    /\ last = NoCall
    /\ ArchiveIdle
    /\ ParseIdle
    /\ CollIdle
    /\ ExtIdle

SectorNext ==
    \/ SectorReaderNew /\ UNCHANGED exceptSector
    \/ SectorReaderRead /\ UNCHANGED exceptSector
    \/ SectorReaderSeek /\ UNCHANGED exceptSector

SpecSector == SectorInit /\ [][SectorNext]_vars

\* Any path of up to MaxPathLen characters, not parsed yet.
ParseInit ==
    /\ ps_path \in Paths
    /\ ps_reader = NotParsed
    /\ ps_collecter = NotParsed
    /\ ArchiveIdle
    /\ SectorIdle
    /\ CollIdle
    /\ ExtIdle

ParseNext ==
    \/ ParseStream /\ UNCHANGED exceptParse
    \/ CollecterParseStream /\ UNCHANGED exceptParse

SpecParse == ParseInit /\ [][ParseNext]_vars

\* A collector of one of the three kinds, as its constructor built it, on
\* either platform.
RulesInit ==
    /\ windows \in BOOLEAN
    /\ self \in {"FileCollecter", "MemoryCollecter", "Collecter"}
    /\ rules \in Catalogues(self, OS)
    /\ last_add = NoAdd
    /\ CollectIdle
    /\ encryption_key = "None"
    /\ files = <<>>
    /\ pc = "idle"
    /\ idx = 1
    /\ output_created = FALSE
    /\ zip_entries = <<>>
    /\ finish_calls = 0
    /\ result = "none"
    /\ files0 = <<>>
    /\ attempts = <<>>
    /\ SectorIdle
    /\ ParseIdle
    /\ ExtIdle

RulesNext ==
    \/ FileCollecterAddRule /\ UNCHANGED exceptColl
    \/ MemoryCollecterAddRule /\ UNCHANGED exceptColl
    \/ CollecterAddRuleFromFile /\ UNCHANGED exceptColl

SpecRules == RulesInit /\ [][RulesNext]_vars

\* A collector of one of the three kinds with the rules its constructor
\* loaded, nothing collected yet.
CollectInit ==
    /\ ArchiveIdle
    /\ self \in {"FileCollecter", "MemoryCollecter", "Collecter"}
    /\ rules \in Catalogues(self, OS)
    /\ last_add = NoAdd
    /\ CollectIdle
    /\ SectorIdle
    /\ ParseIdle
    /\ ExtIdle

CollectNext ==
    \/ FileCollecterCollectByRulename /\ UNCHANGED exceptColl
    \/ MemoryCollecterCollectByRulename /\ UNCHANGED exceptColl
    \/ CollecterCollectByRulename /\ UNCHANGED exceptColl
    \/ CollectAllBegin /\ UNCHANGED exceptColl
    \/ FileCollecterCollectAll /\ UNCHANGED exceptColl
    \/ MemoryCollecterCollectAll /\ UNCHANGED exceptColl
    \/ CollecterCollectAll /\ UNCHANGED exceptColl
    \/ CollectAllEnd /\ UNCHANGED exceptColl
    \/ MemoryCollecterDrop /\ UNCHANGED exceptColl

SpecCollect == CollectInit /\ [][CollectNext]_vars

\* A file whose data stream is about to be copied by one of the two copy
\* functions: any length, sparse or not, any attribute list.
CopyInit ==
    /\ cp_fn \in {"copy_file", "compress_file_raw"}
    /\ cp_len \in 0..MaxStreamLen
    /\ cp_sparse \in BOOLEAN
    /\ cp_list \in SeqsUpTo(ListEntries, MaxListEntries)
    /\ cp_pc = "idle"
    /\ cp_start = 0
    /\ cp_pos = 0
    /\ cp_buf = <<>>
    /\ cp_sink = <<>>
    /\ cp_read = <<>>
    /\ cp_result = "none"
    /\ ArchiveIdle
    /\ SectorIdle
    /\ ParseIdle
    /\ CollIdle
    /\ ScanIdle
    /\ ResolveIdle
    /\ NamesIdle
    /\ WalkIdle

CopyNext ==
    \/ CopyFileOpen /\ UNCHANGED exceptCopy
    \/ CompressFileRawOpen /\ UNCHANGED exceptCopy
    \/ CopyFileLoop /\ UNCHANGED exceptCopy
    \/ CompressFileRawLoop /\ UNCHANGED exceptCopy

SpecCopy == CopyInit /\ [][CopyNext]_vars

\* A memory rule with up to MaxPatterns process names and any pids, and the
\* processes that run.
ScanInit ==
    /\ sc_rule \in [process_names : 0..MaxPatterns, pids : SUBSET Pids]
    /\ sc_processes \in ProcessLists(sc_rule.process_names)
    /\ sc_pc = "idle"
    /\ sc_i = 1
    /\ sc_k = 1
    /\ sc_calls = <<>>
    /\ sc_memory_dumps = <<>>
    /\ sc_result = "none"
    /\ ArchiveIdle
    /\ SectorIdle
    /\ ParseIdle
    /\ CollIdle
    /\ CopyIdle
    /\ ResolveIdle
    /\ NamesIdle
    /\ WalkIdle

ScanNext ==
    \/ ScanBegin /\ UNCHANGED exceptScan
    \/ ScanProcessName /\ UNCHANGED exceptScan
    \/ ScanPid /\ UNCHANGED exceptScan
    \/ ScanEnd /\ UNCHANGED exceptScan

SpecScan == ScanInit /\ [][ScanNext]_vars

\* Any volume, any path; does_file_exist is about to resolve it.
ResolveInit ==
    /\ rs_volume \in Volumes
    /\ rs_path \in ComponentPaths
    /\ rs_pc = "idle"
    /\ rs_dir = <<>>
    /\ rs_idx = 1
    /\ rs_opened = NotOpened
    /\ rs_exists = FALSE
    /\ ArchiveIdle
    /\ SectorIdle
    /\ ParseIdle
    /\ CollIdle
    /\ CopyIdle
    /\ ScanIdle
    /\ NamesIdle
    /\ WalkIdle

ResolveNext ==
    \/ OpenFileBegin /\ UNCHANGED exceptResolve
    \/ OpenFileComponent /\ UNCHANGED exceptResolve
    \/ OpenFileNotFound /\ UNCHANGED exceptResolve
    \/ DoesFileExist /\ UNCHANGED exceptResolve

SpecResolve == ResolveInit /\ [][ResolveNext]_vars

\* Any rule path of up to MaxPathLen characters, nothing emitted yet.
NamesInit ==
    /\ nm_pattern \in Paths
    /\ nm_emitted = NotEmitted
    /\ nm_entry = NotNamed
    /\ ArchiveIdle
    /\ SectorIdle
    /\ ParseIdle
    /\ CollIdle
    /\ CopyIdle
    /\ ScanIdle
    /\ ResolveIdle
    /\ WalkIdle

NamesNext ==
    \/ FileCollecterProbe /\ UNCHANGED exceptNames
    \/ FileCollecterWalk /\ UNCHANGED exceptNames
    \/ CollecterCollectByRule /\ UNCHANGED exceptNames
    \/ CompressFileStart /\ UNCHANGED exceptNames
    \/ CompressFileRawStart /\ UNCHANGED exceptNames

SpecNames == NamesInit /\ [][NamesNext]_vars

\* Any tree to walk; search_filesystem is about to be called.
WalkInit ==
    /\ wk_tree \in Trees
    /\ wk_todo = { e \in Entries : wk_tree[e].kind # "none" }
    /\ wk_pc = "idle"
    /\ wk_senders = {}
    /\ wk_channel = <<>>
    /\ wk_collector = "none"
    /\ wk_found = <<>>
    /\ wk_returned = <<>>
    /\ ArchiveIdle
    /\ SectorIdle
    /\ ParseIdle
    /\ CollIdle
    /\ CopyIdle
    /\ ScanIdle
    /\ ResolveIdle
    /\ NamesIdle

CallerNext ==
    \/ SearchFilesystemBegin /\ UNCHANGED exceptWalk
    \/ WalkReturns /\ UNCHANGED exceptWalk
    \/ SpawnCollector /\ UNCHANGED exceptWalk
    \/ DropTx /\ UNCHANGED exceptWalk
    \/ JoinCollector /\ UNCHANGED exceptWalk

WorkerNext(w) ==
    \/ WorkerVisit(w) /\ UNCHANGED exceptWalk
    \/ WorkerExit(w) /\ UNCHANGED exceptWalk

CollectorNext ==
    \/ CollectorReceive /\ UNCHANGED exceptWalk
    \/ CollectorEnd /\ UNCHANGED exceptWalk

WalkNext ==
    \/ CallerNext
    \/ \E w \in Workers : WorkerNext(w)
    \/ CollectorNext

SpecWalk == WalkInit /\ [][WalkNext]_vars

\* Every thread that can take a step eventually takes one: the operating
\* system schedules the calling thread, each worker and the collecting
\* thread.
SpecWalkFair ==
    /\ SpecWalk
    /\ WF_vars(CallerNext)
    /\ \A w \in Workers : WF_vars(WorkerNext(w))
    /\ WF_vars(CollectorNext)

(***************************************************************************)
(* The run of `collect --all`, bin.rs:113-155: a Collecter is built,       *)
(* collect_all fills its `files` and compress_collection archives them.    *)
(* `collected` and `files` are the one field Collecter.files here.         *)
(***************************************************************************)
\* The artefacts the rules attempted so far have emitted, block after block.
RECURSIVE Blocks(_)
Blocks(attempted) ==
    IF attempted = <<>> THEN <<>>
    ELSE Blocks(SubSeq(attempted, 1, Len(attempted) - 1))
             \o attempted[Len(attempted)].found

\* Rule names and artefacts are numbered as they first occur: the k-th rule
\* declared is rule k, and a new artefact takes the number after the largest
\* emitted so far.  Every run is one of these up to the choice of the names.
InOrderOfNumber(s) ==
    \A i \in DOMAIN s : s[i] = 1 \/ (s[i] - 1) \in Range(SubSeq(s, 1, i - 1))

\* bin.rs:113-124: Collecter::new, with or without a key.
RunInit ==
    /\ windows \in BOOLEAN
    /\ encryption_key \in {"None", "Some"}
    /\ files = <<>>
    /\ pc = "idle"
    /\ idx = 1
    /\ output_created = FALSE
    /\ zip_entries = <<>>
    /\ finish_calls = 0
    /\ result = "none"
    /\ files0 = <<>>
    /\ attempts = <<>>
    /\ self = "Collecter"
    /\ rules \in { c \in Catalogues(self, OS) : \A k \in DOMAIN c : c[k].name = k }
    /\ last_add = NoAdd
    /\ CollectIdle
    /\ SectorIdle
    /\ ParseIdle
    /\ ExtIdle

\* bin.rs:147-149: collect_all is called, once.
RunCollectAllBegin ==
    /\ last_collect = NoCollect
    /\ CollectAllBegin
    /\ UNCHANGED exceptColl

RunCollectAllRule ==
    /\ CollecterCollectAll
    /\ InOrderOfNumber(Blocks(last_collect'.attempted))
    /\ files' = collected'
    /\ UNCHANGED <<windows, encryption_key, pc, idx, output_created, zip_entries,
                   finish_calls, result, files0, attempts>>
    /\ UNCHANGED <<secVars, parseVars, extVars>>

RunCollectAllEnd ==
    /\ CollectAllEnd
    /\ UNCHANGED exceptColl

\* bin.rs:151: compress_collection is called when collect_all has returned.
RunCompressCollectionOpen ==
    /\ last_collect.op = "collect_all"
    /\ last_collect.done
    /\ CompressCollectionOpen
    /\ collected' = files'
    /\ UNCHANGED <<self, rules, last_add, cpc, cidx, disk, dropped, created,
                   remove_attempts, last_collect>>
    /\ UNCHANGED <<secVars, parseVars, extVars>>

RunNext ==
    \/ RunCollectAllBegin
    \/ RunCollectAllRule
    \/ RunCollectAllEnd
    \/ RunCompressCollectionOpen
    \/ ArchiveArtefact /\ UNCHANGED exceptArch
    \/ CompressCollectionFinish /\ UNCHANGED exceptArch

SpecRun == RunInit /\ [][RunNext]_vars

(***************************************************************************)
(* The claims about the archiver, checked under Spec.                      *)
(***************************************************************************)
\* The loop has been entered: the deduplication of 363-365 has run.
Deduplicated == pc = "loop" \/ (pc = "done" /\ result \in {"Ok", "ErrFinish", "ErrArtefact"})

\* C1: compress_collection deduplicates the artefact list before the archive
\* loop: the archived list holds each distinct string of the list it was given
\* exactly once, in the order of first occurrence, and deduplicating it again
\* changes nothing.
C1_DedupKeepsFirstOccurrences ==
    Deduplicated =>
        /\ Range(files) = Range(files0)
        /\ Len(files) = Cardinality(Range(files0))
        /\ \A i, j \in 1..Len(files) :
               i < j => FirstIndex(files0, files[i]) < FirstIndex(files0, files[j])
        /\ Dedup(files) = files

\* An artefact repeated with another one in between has been deduplicated.
C1_Witness ==
    /\ pc = "loop"
    /\ Len(files0) = 3
    /\ files0[1] = files0[3]
    /\ files0[1] # files0[2]
    /\ files = <<files0[1], files0[2]>>

\* C2: a failure while archiving one artefact never aborts the archive loop:
\* compress_collection does not return that artefact's error, and every
\* artefact of the list is attempted.
C2_PerArtefactFailureIsTrapped ==
    (pc = "done" /\ output_created /\ files0 # <<>>) =>
        /\ result # "ErrArtefact"
        /\ Len(attempts) = Len(files)

\* C3: a run that starts with a non-empty list and gets past opening the
\* output file calls finish exactly once, after the last artefact has been
\* attempted; no run ends with entries written and finish not called.
C3_FinishCalledExactlyOnce ==
    /\ finish_calls <= 1
    /\ finish_calls = 1 => Len(attempts) = Len(files)
    /\ (pc = "done" /\ output_created /\ files0 # <<>>) => finish_calls = 1
    /\ (pc = "done" /\ zip_entries # <<>>) => finish_calls = 1

\* C4: the finished archive holds no member for an artefact whose archiving
\* failed after its entry was started.
C4_NoMemberOfFailedEntry ==
    (pc = "done" /\ result = "Ok") =>
        \A i \in 1..Len(attempts) :
            (attempts[i].started /\ attempts[i].fail # "none") =>
                \A k \in 1..Len(zip_entries) :
                    zip_entries[k].artefact # attempts[i].artefact

\* C5: called with an empty artefact list, compress_collection fails with
\* "nothing to compress", writes no entry and no central directory, and no
\* file is created at the output path.
C5_EmptyListCreatesNothing ==
    (pc = "done" /\ files0 = <<>> /\ result # "ErrCreate") =>
        /\ result = "NothingToCompress"
        /\ zip_entries = <<>>
        /\ finish_calls = 0
        /\ ~output_created

\* C20: when the collector holds an encryption key, every entry of the
\* archive, written through the raw NTFS path or through the buffered OS path,
\* is started with AES-256 encryption with that key; when it holds none, no
\* entry is encrypted.
C20_EveryEntryEncryptedIffKey ==
    \A k \in 1..Len(zip_entries) : zip_entries[k].aes <=> encryption_key = "Some"

\* A finished archive with a key that has an entry of the raw path and one of
\* the OS path.
C20_Witness ==
    /\ pc = "done"
    /\ result = "Ok"
    /\ encryption_key = "Some"
    /\ \E k \in 1..Len(zip_entries) : zip_entries[k].via = "raw" /\ zip_entries[k].aes
    /\ \E k \in 1..Len(zip_entries) : zip_entries[k].via = "os" /\ zip_entries[k].aes

(***************************************************************************)
(* The claims about SectorReader, checked under SpecSector.                *)
(***************************************************************************)
\* C6: round trip: when the source's length is a multiple of the sector size
\* and offset + length is within it, seek(Start(offset)) followed by a read of
\* length bytes succeeds and returns the source's bytes offset..offset+length.
C6_SeekReadRoundTrip ==
    (/\ sr_state = "ready"
     /\ last.op = "read"
     /\ last.prev = "seek_start"
     /\ src_len % sector_size = 0
     /\ last.p + last.arg <= src_len) =>
        /\ last.ok
        /\ last.data = Slice(last.p, last.arg)

\* C7: a successful read that follows a successful read with no seek in
\* between returns the bytes at the logical position the first one left, and
\* every successful read advances the logical position by its length.
C7_SuccessiveReads ==
    (sr_state = "ready" /\ last.op = "read" /\ last.ok) =>
        /\ stream_position = last.p + last.arg
        /\ last.prev = "read" => last.data = Slice(last.p, last.arg)

\* C8: every seek a successful call issues to the inner stream targets a
\* multiple of sector_size, and every read it issues starts at an inner
\* position that is a multiple of sector_size and has a length that is a
\* positive multiple of sector_size.
C8_InnerIoIsSectorAligned ==
    (sr_state = "ready" /\ last.ok) =>
        \A k \in 1..Len(last.inner_ops) :
            LET io == last.inner_ops[k]
            IN  /\ io.pos % sector_size = 0
                /\ io.kind = "read" => (io.len > 0 /\ io.len % sector_size = 0)

\* A successful read at a logical position inside a sector.
C8_Witness ==
    /\ sr_state = "ready"
    /\ last.op = "read"
    /\ last.ok
    /\ last.arg > 0
    /\ sector_size > 1
    /\ last.p % sector_size # 0

C10_NewIffPowerOfTwo ==
    last.op = "new" =>
        /\ last.ok <=> (\E k \in 0..(PosBits - 1) : last.arg = Pow2(k))
        /\ last.arg = 0 => ~last.ok
        /\ last.ok <=> sr_state = "ready"
        /\ last.ok => (stream_position = 0 /\ sector_size = last.arg)

\* A reader has been built with a sector size of more than one byte.
C10_Witness ==
    /\ last.op = "new"
    /\ last.ok
    /\ sr_state = "ready"
    /\ sector_size > 1

(***************************************************************************)
(* The claim about parse_stream, checked under SpecParse.                  *)
(***************************************************************************)
\* 1-based index of the last ':' of s (0 when there is none).
LastColon(s) ==
    IF Colon \in Range(s)
    THEN CHOOSE i \in 1..Len(s) : s[i] = Colon /\ \A j \in (i + 1)..Len(s) : s[j] # Colon
    ELSE 0

SplitsAtLastColon(path, r) ==
    /\ LastColon(path) \in {0, 2} =>
           (r.file_path = path /\ r.stream = <<>>)
    /\ LastColon(path) \notin {0, 2} =>
           /\ r.file_path = SubSeq(path, 1, LastColon(path) - 1)
           /\ r.stream = SubSeq(path, LastColon(path) + 1, Len(path))
    /\ Colon \notin Range(r.stream)
    /\ r.stream # <<>> => r.file_path \o <<Colon>> \o r.stream = path

ReaderParseStreamSplitsAtLastColon ==
    ps_reader.called => SplitsAtLastColon(ps_path, ps_reader)

(***************************************************************************)
(* The claims about the add operations, checked under SpecRules.           *)
(***************************************************************************)
Typed == self \in {"FileCollecter", "MemoryCollecter"}

\* C14: rule names stay unique per rule kind: after any sequence of add_rule
\* calls on a FileCollecter or a MemoryCollecter whose catalogue had pairwise
\* distinct names, the names of its rule list are pairwise distinct; an add
\* whose name is already present returns an error and leaves the list
\* unchanged.
C14_RuleNamesStayUnique ==
    Typed =>
        /\ \A i, j \in 1..Len(rules) : i # j => rules[i].name # rules[j].name
        /\ (last_add.op = "add_rule" /\ NameExists(last_add.before, last_add.rule.name)) =>
               (~last_add.ok /\ rules = last_add.before)

\* A rule of the right variant and platform was refused because of its name.
C14_Witness ==
    /\ Typed
    /\ last_add.op = "add_rule"
    /\ last_add.rule.variant = (IF self = "FileCollecter" THEN "FileRule" ELSE "MemoryRule")
    /\ last_add.rule.platform = OS
    /\ NameExists(last_add.before, last_add.rule.name)
    /\ ~last_add.ok
    /\ Len(rules) = NumRuleNames

C16_RuleTypeMatchesVariant ==
    /\ self = "FileCollecter" =>
           \A i \in 1..Len(rules) :
               rules[i].variant = "FileRule" /\ rules[i].rule_type = "file"
    /\ self = "MemoryCollecter" =>
           \A i \in 1..Len(rules) :
               rules[i].variant = "MemoryRule" /\ rules[i].rule_type = "memory"

\* C17: add_rule_from_file returns Ok only if the parsed rule was added to
\* the rule list; it returns an error when the document does not parse, when
\* a rule of that name exists already, and when the rule's platform is not
\* the current OS.
C17_AddRuleFromFileFailsUnlessAdded ==
    last_add.op = "add_rule_from_file" =>
        /\ last_add.ok =>
               (last_add.parsed /\ rules = Append(last_add.before, last_add.rule))
        /\ ~last_add.parsed => ~last_add.ok
        /\ (last_add.parsed /\ NameExists(last_add.before, last_add.rule.name)) =>
               ~last_add.ok
        /\ (last_add.parsed /\ last_add.rule.platform # OS) => ~last_add.ok

(***************************************************************************)
(* The claims about collecting and about the dump files, checked under     *)
(* SpecCollect.                                                            *)
(***************************************************************************)
DeletionPermitted ==
    \A i \in 1..Len(remove_attempts) : remove_attempts[i].err # "PermissionDenied"

\* C12: every dump file the memory collector created on disk while
\* collecting is removed when it is dropped (deletion being permitted),
\* including the file of a dump that failed and the files dumped earlier in a
\* rule whose collection returned an error.
C12_CreatedDumpFilesRemovedAtDrop ==
    (self = "MemoryCollecter" /\ dropped /\ DeletionPermitted) =>
        created \cap disk = {}

\* C13: when a MemoryCollecter is dropped, the deletion of every element of
\* memory_dumps is attempted, in order; a deletion that fails does not stop
\* the attempts on the later paths, and every emitted path whose deletion is
\* permitted is absent from the disk after the drop.
C13_DropAttemptsEveryEmittedPath ==
    (self = "MemoryCollecter" /\ dropped) =>
        /\ Len(remove_attempts) = Len(collected)
        /\ \A i \in 1..Len(collected) : remove_attempts[i].path = collected[i]
        /\ \A i \in 1..Len(collected) :
               remove_attempts[i].err # "PermissionDenied" => collected[i] \notin disk

\* The first deletion was refused and the second path was deleted all the
\* same.
C13_Witness ==
    /\ self = "MemoryCollecter"
    /\ dropped
    /\ Len(collected) >= 2
    /\ remove_attempts[1].err = "PermissionDenied"
    /\ remove_attempts[2].err = ""
    /\ collected[1] \in disk
    /\ collected[2] \notin disk

\* C18: collect_all attempts every rule of the collector once, in
\* declaration order; a rule whose collection fails adds nothing to the
\* artefact list and does not keep a later rule from being attempted, and
\* collect_all returns Ok.
C18_CollectAllAttemptsEveryRule ==
    last_collect.op = "collect_all" =>
        /\ Len(last_collect.attempted) <= Len(rules)
        /\ \A i \in 1..Len(last_collect.attempted) :
               /\ last_collect.attempted[i].name = rules[i].name
               /\ ~last_collect.attempted[i].ok => last_collect.attempted[i].grew = 0
        /\ cpc = "idle" => last_collect.done
        /\ last_collect.done =>
               (last_collect.ok /\ Len(last_collect.attempted) = Len(rules))

\* collect_all has returned after a rule that failed and a later rule that
\* added artefacts.
C18_Witness ==
    /\ last_collect.op = "collect_all"
    /\ last_collect.done
    /\ Len(last_collect.attempted) >= 2
    /\ ~last_collect.attempted[1].ok
    /\ last_collect.attempted[2].ok
    /\ last_collect.attempted[2].grew > 0
    /\ Len(collected) > Len(last_collect.before)

\* C19: collect_by_rulename(name) returns Ok(k) exactly when a rule of that
\* name exists and its collection succeeded, and then the artefact list is
\* the earlier list with exactly k elements appended; otherwise it returns an
\* error and the artefact list is unchanged.
C19_CollectByRulenameFrame ==
    last_collect.op = "collect_by_rulename" =>
        /\ last_collect.ok <=> (NameExists(rules, last_collect.name) /\ last_collect.rule_ok)
        /\ last_collect.ok =>
               /\ Len(collected) = Len(last_collect.before) + last_collect.ret
               /\ SubSeq(collected, 1, Len(last_collect.before)) = last_collect.before
        /\ ~last_collect.ok => collected = last_collect.before

\* A collection that found something was appended to a list that was not
\* empty.
C19_Witness ==
    /\ last_collect.op = "collect_by_rulename"
    /\ last_collect.ok
    /\ last_collect.ret > 0
    /\ last_collect.before # <<>>
    /\ collected # last_collect.before

(***************************************************************************)
(* The claims about the raw copy, checked under SpecCopy.                  *)
(***************************************************************************)
\* C21: when a raw copy has returned Ok, the sink holds exactly the bytes of
\* the data stream from the starting position to its end, in order, and as
\* many bytes were written as were read.
C21_RawCopyWritesTheStreamBytes ==
    (cp_pc = "done" /\ cp_result = "Ok") =>
        /\ cp_sink = StreamBytes(cp_start, cp_len)
        /\ Len(cp_sink) = Len(cp_read)

\* C21, reached: a copy of a stream of three bytes has returned Ok after
\* writes that all succeeded, and the sink holds more bytes than were read.
C21_MoreWrittenThanRead ==
    /\ cp_pc = "done"
    /\ cp_result = "Ok"
    /\ cp_len = 3
    /\ cp_start = 0
    /\ cp_read = StreamBytes(0, 3)
    /\ Len(cp_sink) > Len(cp_read)

\* The allocated sizes of the hole runs of the attribute list's entries
\* outside the file's own record, summed.
RECURSIVE SumOfHoles(_)
SumOfHoles(list) ==
    IF list = <<>> THEN 0
    ELSE SumOfHoles(Tail(list))
         + (IF Head(list).own THEN 0
            ELSE scan_data_runs_accumulating(Head(list).runs, 1, 0))

NumberOfHoles(list) ==
    Cardinality({ p \in (1..Len(list)) \X (1..MaxRuns) :
                    /\ ~list[p[1]].own
                    /\ p[2] <= Len(list[p[1]].runs)
                    /\ list[p[1]].runs[p[2]].hole })

\* C24: once copy_file has computed it, starting_position is the sum of the
\* allocated sizes of all hole runs for a sparse stream, and 0 for a stream
\* that is not sparse.
C24_StartingPositionSumsTheHoles ==
    (cp_fn = "copy_file" /\ cp_pc \in {"loop", "done"} /\ (cp_pc = "done" => cp_result = "Ok")) =>
        cp_start = IF cp_sparse THEN SumOfHoles(cp_list) ELSE 0

\* C24, reached: a sparse stream with two hole runs, copied from the size of
\* the last one.
C24_LastHoleOnly ==
    /\ cp_fn = "copy_file"
    /\ cp_pc = "loop"
    /\ cp_sparse
    /\ NumberOfHoles(cp_list) = 2
    /\ cp_start < SumOfHoles(cp_list)

(***************************************************************************)
(* The claim about the process loop, checked under SpecScan.               *)
(***************************************************************************)
DumpsOf(p) == { j \in DOMAIN sc_calls : sc_calls[j].process = p }

Matches(p) == sc_processes[p] # {} \/ p \in sc_rule.pids

\* C22: collect_by_rule calls dump_memory at most once for each process, and
\* when it has returned Ok it has called it exactly once for each process
\* that matches a name entry or a pid, and never for a process that matches
\* nothing.
C22_OneDumpPerProcess ==
    \A p \in DOMAIN sc_processes :
        /\ Cardinality(DumpsOf(p)) <= 1
        /\ ~Matches(p) => DumpsOf(p) = {}
        /\ (sc_pc = "done" /\ sc_result = "Ok" /\ Matches(p)) => Cardinality(DumpsOf(p)) = 1

\* C22, reached: collect_by_rule has returned Ok with two dumps of the one
\* process that runs, which matches a name entry and has its pid listed.
C22_DumpedByNameAndByPid ==
    /\ sc_pc = "done"
    /\ sc_result = "Ok"
    /\ Len(sc_processes) = 1
    /\ sc_memory_dumps = <<1, 1>>
    /\ \E j, k \in DOMAIN sc_calls : sc_calls[j].via = "name" /\ sc_calls[k].via = "pid"

(***************************************************************************)
(* The claim about path resolution, checked under SpecResolve.             *)
(***************************************************************************)
\* What the components of p, each looked up in the directory the preceding
\* ones lead to, name on the volume.
RECURSIVE KindOf(_, _)
KindOf(volume, p) ==
    IF p = <<>> THEN "dir"
    ELSE LET parent == SubSeq(p, 1, Len(p) - 1)
         IN  IF KindOf(volume, parent) = "dir"
             THEN find(volume, parent, p[Len(p)])
             ELSE "absent"

\* C23: open_file returns a file, and does_file_exist true, only for a path
\* whose components are all found, each in the directory reached through the
\* preceding ones, with the last one a file; the file returned is that one.
C23_ResolvesOnlyExistingPaths ==
    /\ rs_opened.ok => (KindOf(rs_volume, rs_path) = "file" /\ rs_opened.file = rs_path)
    /\ (rs_pc = "done" /\ rs_exists) => KindOf(rs_volume, rs_path) = "file"

\* C23, reached: does_file_exist has returned true for a path of two
\* components whose first one is not in the root directory.
C23_MissingComponentSkipped ==
    /\ rs_pc = "done"
    /\ rs_exists
    /\ Len(rs_path) = 2
    /\ find(rs_volume, <<>>, rs_path[1]) = "absent"

\* C23, reached: does_file_exist has returned true for a path with a further
\* component after a component that is a file.
C23_ComponentsAfterAFile ==
    /\ rs_pc = "done"
    /\ rs_exists
    /\ Len(rs_path) = 2
    /\ find(rs_volume, <<>>, rs_path[1]) = "file"

(***************************************************************************)
(* The claims about artefact strings and entry names, checked under        *)
(* SpecNames.                                                              *)
(***************************************************************************)
\* C25: an artefact emitted by the file collector on Windows has exactly two
\* ':' when the pattern carried a stream name, and otherwise exactly one (the
\* drive letter's) and none at its end.
C25_StreamSuffixIffPatternHasStream ==
    nm_emitted.by \in {"probe", "walk"} =>
        IF nm_emitted.stream # <<>>
        THEN CountColons(nm_emitted.artefact) = 2
        ELSE /\ CountColons(nm_emitted.artefact) = 1
             /\ nm_emitted.artefact[Len(nm_emitted.artefact)] # Colon

\* C25, reached: the walk has emitted, for a pattern without any ':', an
\* artefact that ends with ':'.
C25_TrailingColon ==
    /\ nm_emitted.by = "walk"
    /\ Colon \notin Range(nm_pattern)
    /\ nm_emitted.artefact[Len(nm_emitted.artefact)] = Colon

\* The artefact without its stream suffix ':S'.
WithoutStream(e) == SubSeq(e.artefact, 1, Len(e.artefact) - Len(e.stream) - 1)

\* The artefact is a path with the drive letter's colon only, then ':S'.
CarriesStream(e) ==
    /\ e.stream # <<>>
    /\ e.artefact = WithoutStream(e) \o <<Colon>> \o e.stream
    /\ CountColons(WithoutStream(e)) = 1

\* C27: the entry of an artefact that carries a stream ':S' is named by the
\* path without the drive letter's colon, then '_', then S, on either write
\* path; and no entry name contains ':'.
C27_StreamEntryNameHasUnderscore ==
    nm_entry # NotNamed =>
        /\ Colon \notin Range(nm_entry.name)
        /\ CarriesStream(nm_emitted) =>
               nm_entry.name = replace_colons(WithoutStream(nm_emitted))
                                   \o <<Underscore>> \o nm_emitted.stream

\* C27, reached: compress_file has named the entry of an artefact that
\* carries a stream without any '_'.
C27_OsEntryNameWithoutUnderscore ==
    /\ nm_entry.via = "os"
    /\ CarriesStream(nm_emitted)
    /\ Underscore \notin Range(nm_entry.name)

\* The raw write path alone names the entries as C27 says.
RawEntryNameHasUnderscore ==
    (nm_entry.via = "raw" /\ CarriesStream(nm_emitted)) =>
        nm_entry.name = replace_colons(WithoutStream(nm_emitted))
                            \o <<Underscore>> \o nm_emitted.stream

(***************************************************************************)
(* The claim about the choice of the write path, checked under Spec.       *)
(***************************************************************************)
\* C28: on Windows every iteration of the archive loop tries the raw reader
\* first, and an artefact is archived through the OS-level read only after
\* the raw attempt on it has failed.
C28_RawReaderTriedFirst ==
    windows =>
        \A i \in DOMAIN attempts :
            /\ Head(attempts[i].tried) = "raw"
            /\ (\E j \in DOMAIN zip_entries :
                    /\ zip_entries[j].artefact = attempts[i].artefact
                    /\ zip_entries[j].via = "os")
                => <<"raw", "os">> = attempts[i].tried

\* C28, reached: on Windows an artefact has been archived whole through the
\* OS-level read and the raw reader was never tried on it.
C28_OsReadWithoutRawAttempt ==
    /\ windows
    /\ result = "Ok"
    /\ \E i \in DOMAIN attempts :
          /\ attempts[i].os_open
          /\ attempts[i].fail = "none"
          /\ "raw" \notin Range(attempts[i].tried)
          /\ \E j \in DOMAIN zip_entries :
                /\ zip_entries[j].artefact = attempts[i].artefact
                /\ zip_entries[j].via = "os"

\* Where the raw reader is tried at all, File::open has failed before.
RawReaderIsTheFallback ==
    \A i \in DOMAIN attempts :
        "raw" \in Range(attempts[i].tried) => (windows /\ ~attempts[i].os_open)

(***************************************************************************)
(* The claim about the order of artefacts and entries, checked under       *)
(* SpecRun.                                                                *)
(***************************************************************************)
\* The artefact list as collect_all has built it: Collecter.files until
\* compress_collection deduplicates it, the list it was called with after.
ListBuilt == IF pc = "idle" THEN collected ELSE files0

Occurrences(s, x) == Cardinality({ i \in DOMAIN s : s[i] = x })

\* C26: what search_filesystem returns holds each file of the tree that at
\* least one pattern matches exactly once, and no directory, no entry that
\* no pattern matches and nothing else; nothing sent is ever lost on the way.
C26_WalkResultIsComplete ==
    /\ wk_pc = "returned" =>
           /\ \A e \in Entries :
                  Occurrences(wk_returned, e) =
                      IF wk_tree[e].kind = "file" /\ wk_tree[e].matches # {} THEN 1 ELSE 0
           /\ Range(wk_returned) \subseteq Entries
    /\ \A e \in Entries :
           (wk_tree[e].kind = "file" /\ wk_tree[e].matches # {}
                /\ e \notin wk_todo)
               => Occurrences(wk_found \o wk_channel, e) = 1

\* C26, reached: a walk of a file that two patterns match, a file that one
\* matches and a directory that a pattern matches has returned the two
\* files, each once.
C26_Witness ==
    /\ wk_pc = "returned"
    /\ Len(wk_returned) = 2
    /\ \E d, e, f \in Entries :
          /\ wk_tree[d].kind = "dir" /\ wk_tree[d].matches # {}
          /\ wk_tree[e].kind = "file" /\ Cardinality(wk_tree[e].matches) = 2
          /\ wk_tree[f].kind = "file" /\ Cardinality(wk_tree[f].matches) = 1
          /\ wk_returned = <<f, e>>

\* C30: every sender is dropped before the collecting thread is joined, and
\* search_filesystem returns in the end.
C30_SearchFilesystemTerminates ==
    /\ [](wk_pc \in {"join", "returned"} => wk_senders = {})
    /\ <>(wk_pc = "returned")

\* C30, reached: search_filesystem has returned paths that were waiting in
\* the channel when the walk ended.
C30_Witness ==
    /\ wk_pc = "returned"
    /\ wk_returned # <<>>
    /\ wk_senders = {}
    /\ wk_collector = "finished"

====
